---- MODULE Spec2Model ----
(***************************************************************************)
(* A model of grootboek: the double-entry domain objects (Account,         *)
(* Transaction), the balance calculator, the journal lexer / parser /      *)
(* writer and the journal-backed ledger repositories.                      *)
(*                                                                         *)
(* Text is a sequence of one-character strings.  A Decimal is an integer   *)
(* (the modelled quantities are integral; the Decimal of a price's rate is *)
(* a fraction, see Fraction), a Date is the number yyyymmdd                *)
(* (InvalidDate for a string JavaScript cannot parse), and an optional     *)
(* value is a sequence of length at most one (<<>> is undefined).          *)
(***************************************************************************)
EXTENDS Integers, Sequences, FiniteSets, TLC

VARIABLES
    props,      \* domain: the TransactionProps of the last construction
    txn,        \* domain: what the last construction produced (object or error)
    op,         \* the last operation that ran
    accountName,    \* pattern matching: the Account's name
    patternArg,    \* pattern matching: the pattern handed to matchesPattern
    matched,    \* pattern matching: what matchesPattern returned
    calcTxns,   \* calculator: the Transaction[] handed to the calculator
    calcOptions,\* calculator: the CalculatorOptions
    calcResult, \* calculator: the Position[] or Balance[] returned
    file,       \* journal: the text of the journal file
    mtime,      \* journal: the file's lastModified stamp, 0 while it does not exist
    cachedTransactions, \* repository: Some(Transaction[]) or None for null
    cacheVersion,       \* repository: the version the cache was loaded at
    nodeArg,    \* repository: the TransactionNode handed to nodeToTransaction
    arg,        \* repository: the argument of the last call, or the entries typed into the journal
    answer,     \* repository: what the last call returned or threw
    appended,   \* history: what the earlier calls were handed (and, for parse, returned)
    calls,      \* concurrent appends: each caller's position and local variables
    lexer,      \* lexer: the Lexer object's fields, <<>> before construction
    parser,     \* parser: the Parser object's fields, <<>> before construction
    cachedPrices,       \* price repository: Some(Price[]) or None for null
    priceCacheVersion   \* price repository: the version the cache was loaded at

domVars == <<props, txn>>
matchVars == <<accountName, patternArg, matched>>
calcVars == <<calcTxns, calcOptions, calcResult>>
fileVars == <<file, mtime>>
repoVars == <<cachedTransactions, cacheVersion, nodeArg, arg, answer, appended, calls>>
parseVars == <<lexer, parser>>
priceVars == <<cachedPrices, priceCacheVersion>>
vars == <<props, txn, op, accountName, patternArg, matched, calcTxns, calcOptions, calcResult,
          file, mtime, cachedTransactions, cacheVersion, nodeArg, arg, answer, appended, calls,
          lexer, parser, cachedPrices, priceCacheVersion>>

(***************************************************************************)
(* Bounds.                                                                 *)
(***************************************************************************)
MaxPostings == 3    \* postings handed to one Transaction constructor call
MaxQty == 1         \* posting quantities range over -MaxQty..MaxQty
MaxSegments == 3    \* segments of an account name handed to matchesPattern
MaxPatternLen == 3  \* segments of a pattern handed to matchesPattern
MaxTxns == 2        \* transactions handed to the balance calculator
MaxNodePostings == 3 \* postings of a TransactionNode handed to nodeToTransaction
MaxAppends == 2     \* appendTransactions calls on one repository
MaxEntries == 3     \* transactions typed by hand into a journal

(***************************************************************************)
(* Text helpers.                                                           *)
(***************************************************************************)
\* a string literal as a sequence of characters
S(str) == [i \in 1..Len(str) |-> SubSeq(str, i, i)]

None == <<>>
Some(v) == <<v>>

Whitespace == {" ", "\t", "\n", "\r"}

\* String.prototype.trim() === ''
IsBlank(s) == \A i \in 1..Len(s) : s[i] \in Whitespace

(***************************************************************************)
(* Insertion-ordered Map<K, V>: a sequence of entries with distinct keys.  *)
(***************************************************************************)
MapHas(m, k) == \E i \in 1..Len(m) : m[i].k = k

MapGet(m, k, default) ==
    IF MapHas(m, k) THEN m[CHOOSE i \in 1..Len(m) : m[i].k = k].v ELSE default

MapSet(m, k, v) ==
    IF MapHas(m, k)
    THEN [i \in 1..Len(m) |-> IF m[i].k = k THEN [k |-> k, v |-> v] ELSE m[i]]
    ELSE Append(m, [k |-> k, v |-> v])

\* `value`, computed once, handed to Body
With(value, Body(_)) == CHOOSE result \in {Body(v) : v \in {value}} : TRUE

(***************************************************************************)
(* Transaction (domain/transaction.ts) and BalanceError.                   *)
(***************************************************************************)
Posting(account, quantity, commodity) ==
    [account |-> account, quantity |-> quantity, commodity |-> commodity]

\* Transaction.calculateImbalances: commodity -> running sum, in first-seen order
RECURSIVE ImbalancesFrom(_, _)
ImbalancesFrom(postings, balances) ==
    IF postings = <<>> THEN balances
    ELSE LET p == Head(postings)
             current == MapGet(balances, p.commodity, 0)
         IN ImbalancesFrom(Tail(postings), MapSet(balances, p.commodity, current + p.quantity))

calculateImbalances(postings) == ImbalancesFrom(postings, <<>>)

fromImbalances_KeepAll(imbalances) ==
    [kind |-> "BalanceError", unbalanced |-> imbalances]

\* BalanceError.fromImbalances: keeps the entries whose imbalance is not zero
fromImbalances(imbalances) ==
    [kind |-> "BalanceError",
     unbalanced |-> SelectSeq(imbalances, LAMBDA e : e.v # 0)]

ValidationError(field) == [kind |-> "ValidationError", field |-> field]

\* Transaction.validate: the error it throws, or the object itself
validate(t) ==
    IF IsBlank(t.description) THEN ValidationError("description")
    ELSE IF Len(t.postings) < 2 THEN ValidationError("postings")
    ELSE LET imbalances == calculateImbalances(t.postings)
         IN IF \E i \in 1..Len(imbalances) : imbalances[i].v # 0
            THEN fromImbalances(imbalances)
            ELSE t

\* new Transaction(props); randomUUID() is the id "u-u-i-d"
NewTransaction(p) ==
    LET t == [kind |-> "Transaction",
              id |-> IF p.id = None THEN S("u-u-i-d") ELSE p.id[1],
              date |-> p.date,
              description |-> p.description,
              postings |-> p.postings,
              comment |-> p.comment,
              externalId |-> p.externalId]
    IN IF p.skipValidation THEN t ELSE validate(t)

PropsOf(t, id, skip) ==
    [id |-> Some(id), date |-> t.date, description |-> t.description,
     postings |-> t.postings, comment |-> t.comment,
     externalId |-> t.externalId, skipValidation |-> skip]

\* Transaction.withId
withId(t, id) == NewTransaction(PropsOf(t, id, TRUE))

isBalanced(t) ==
    LET imbalances == calculateImbalances(t.postings)
    IN \A i \in 1..Len(imbalances) : imbalances[i].v = 0

(***************************************************************************)
(* Account (domain/account.ts).                                            *)
(***************************************************************************)
\* String.prototype.split(sep) for a one-character separator
RECURSIVE SplitFrom(_, _, _, _)
SplitFrom(str, sep, i, current) ==
    IF i > Len(str) THEN <<current>>
    ELSE IF str[i] = sep THEN <<current>> \o SplitFrom(str, sep, i + 1, <<>>)
    ELSE SplitFrom(str, sep, i + 1, Append(current, str[i]))

Split(str, sep) == SplitFrom(str, sep, 1, <<>>)

\* Array.prototype.join(sep)
RECURSIVE Join(_, _)
Join(parts, sep) ==
    IF parts = <<>> THEN <<>>
    ELSE IF Len(parts) = 1 THEN parts[1]
    ELSE parts[1] \o sep \o Join(Tail(parts), sep)

SkipRange_FromOne(remaining) == 1..remaining

\* the values of skip tried for a '**' that is not the last pattern segment,
\* with `remaining` = segments.length - si
SkipRange(remaining) == 0..remaining

\* the loop that drops the '**' left over when the segments are used up
RECURSIVE TrailingStars(_, _)
TrailingStars(patterns, pi) ==
    IF pi <= Len(patterns) /\ patterns[pi] = S("**")
    THEN TrailingStars(patterns, pi + 1)
    ELSE pi

\* Account.matchSegments; si and pi count from 1 here
RECURSIVE MatchLoop(_, _, _, _)
matchSegments(segments, patterns) == MatchLoop(segments, patterns, 1, 1)

MatchLoop(segments, patterns, si, pi) ==
    IF si <= Len(segments) /\ pi <= Len(patterns)
    THEN IF patterns[pi] = S("**")
         THEN IF pi = Len(patterns) THEN TRUE
              ELSE \E skip \in SkipRange(Len(segments) - (si - 1)) :
                      matchSegments(SubSeq(segments, si + skip, Len(segments)),
                                    SubSeq(patterns, pi + 1, Len(patterns)))
         ELSE IF patterns[pi] = S("*") THEN MatchLoop(segments, patterns, si + 1, pi + 1)
         ELSE IF patterns[pi] = segments[si] THEN MatchLoop(segments, patterns, si + 1, pi + 1)
         ELSE FALSE
    ELSE si = Len(segments) + 1 /\ TrailingStars(patterns, pi) = Len(patterns) + 1

\* Account.matchesPattern on the account called `name`
matchesPattern(name, pat) == matchSegments(Split(name, ":"), Split(pat, ":"))

(***************************************************************************)
(* BalanceCalculator (services/balance-calculator.ts).                     *)
(***************************************************************************)
\* Account.parent: the name without its last segment, None for one segment
parent(name) ==
    LET segments == Split(name, ":")
    IN IF Len(segments) <= 1 THEN None
       ELSE Some(Join(SubSeq(segments, 1, Len(segments) - 1), S(":")))

\* `${posting.account.name}:${posting.commodity}`
PositionKey(posting) == posting.account \o S(":") \o posting.commodity

\* the loop over txn.postings
RECURSIVE AddPostings(_, _)
AddPostings(postings, positionMap) ==
    IF postings = <<>> THEN positionMap
    ELSE LET key == PositionKey(Head(postings))
             current == MapGet(positionMap, key, 0)
         IN AddPostings(Tail(postings),
                        MapSet(positionMap, key, current + Head(postings).quantity))

\* the loop over the transactions, skipping those after asOfDate
RECURSIVE FoldTransactions(_, _, _)
FoldTransactions(transactions, asOfDate, positionMap) ==
    IF transactions = <<>> THEN positionMap
    ELSE LET t == Head(transactions)
         IN IF asOfDate # None /\ t.date > asOfDate[1]
            THEN FoldTransactions(Tail(transactions), asOfDate, positionMap)
            ELSE FoldTransactions(Tail(transactions), asOfDate,
                                  AddPostings(t.postings, positionMap))

\* the Position built from one entry of positionMap: the key is split at
\* every ':' and the last part is taken as the commodity
PositionOf(entry) ==
    LET parts == Split(entry.k, ":")
    IN [account |-> Join(SubSeq(parts, 1, Len(parts) - 1), S(":")),
        commodity |-> parts[Len(parts)],
        quantity |-> entry.v]

RECURSIVE MapSeq(_, _)
MapSeq(F(_), seq) == IF seq = <<>> THEN <<>> ELSE <<F(Head(seq))>> \o MapSeq(F, Tail(seq))

\* BalanceCalculator.calculatePositions
calculatePositions(transactions, options) ==
    LET positionMap == FoldTransactions(transactions, options.asOfDate, <<>>)
    IN MapSeq(PositionOf, SelectSeq(positionMap, LAMBDA e : e.v # 0))

\* the grouping of the positions by account
RECURSIVE GroupPositions(_, _)
GroupPositions(positions, balanceMap) ==
    IF positions = <<>> THEN balanceMap
    ELSE LET pos == Head(positions)
             accountPositions == MapGet(balanceMap, pos.account, <<>>)
             current == MapGet(accountPositions, pos.commodity, 0)
         IN GroupPositions(Tail(positions),
                MapSet(balanceMap, pos.account,
                       MapSet(accountPositions, pos.commodity, current + pos.quantity)))

\* for (const [commodity, quantity] of childPositions)
RECURSIVE AddChild(_, _)
AddChild(childPositions, parentPositions) ==
    IF childPositions = <<>> THEN parentPositions
    ELSE LET e == Head(childPositions)
         IN AddChild(Tail(childPositions),
                     MapSet(parentPositions, e.k, MapGet(parentPositions, e.k, 0) + e.v))

\* while (parent): add what balanceMap holds for accountName now to every
\* ancestor
RECURSIVE UpParents(_, _, _)
UpParents(accountName_, par, balanceMap) ==
    IF par = None THEN balanceMap
    ELSE LET parentPositions == MapGet(balanceMap, par[1], <<>>)
             childPositions == MapGet(balanceMap, accountName_, <<>>)
         IN UpParents(accountName_, parent(par[1]),
                      MapSet(balanceMap, par[1], AddChild(childPositions, parentPositions)))

\* for (const accountName of allAccounts)
RECURSIVE Aggregate(_, _)
Aggregate(allAccounts, balanceMap) ==
    IF allAccounts = <<>> THEN balanceMap
    ELSE Aggregate(Tail(allAccounts),
                   UpParents(Head(allAccounts), parent(Head(allAccounts)), balanceMap))

\* the order of localeCompare on the characters of the modelled names
CollationOrder == S(":$ABCENX")
CharRank(c) == CHOOSE i \in 1..Len(CollationOrder) : CollationOrder[i] = c

RECURSIVE localeCompare(_, _)
localeCompare(a, b) ==
    IF a = <<>> THEN (IF b = <<>> THEN 0 ELSE 0 - 1)
    ELSE IF b = <<>> THEN 1
    ELSE IF CharRank(Head(a)) < CharRank(Head(b)) THEN 0 - 1
    ELSE IF CharRank(Head(a)) > CharRank(Head(b)) THEN 1
    ELSE localeCompare(Tail(a), Tail(b))

\* Array.prototype.sort (stable) by account
RECURSIVE InsertSorted(_, _)
InsertSorted(sorted, b) ==
    IF sorted = <<>> THEN <<b>>
    ELSE IF localeCompare(Head(sorted).account, b.account) <= 0
         THEN <<Head(sorted)>> \o InsertSorted(Tail(sorted), b)
         ELSE <<b>> \o sorted

RECURSIVE SortBalances(_, _)
SortBalances(balances, sorted) ==
    IF balances = <<>> THEN sorted
    ELSE SortBalances(Tail(balances), InsertSorted(sorted, Head(balances)))

BalanceOf(entry) == [account |-> entry.k, positions |-> entry.v]
KeyOf(entry) == entry.k

\* BalanceCalculator.calculateBalances
calculateBalances(transactions, options) ==
    LET positions == calculatePositions(transactions, options)
        grouped == GroupPositions(positions, <<>>)
        balanceMap == IF options.includeSubaccounts
                      THEN Aggregate(MapSeq(KeyOf, grouped), grouped)
                      ELSE grouped
    IN SortBalances(MapSeq(BalanceOf, balanceMap), <<>>)

(***************************************************************************)
(* Lexer (adapters/git/parser/lexer.ts).  pos counts from 0 as in the      *)
(* source; a read past the end of the input gives Undefined.               *)
(***************************************************************************)
Digits == {"0", "1", "2", "3", "4", "5", "6", "7", "8", "9"}
Letters ==
    {"a", "b", "c", "d", "e", "f", "g", "h", "i", "j", "k", "l", "m",
     "n", "o", "p", "q", "r", "s", "t", "u", "v", "w", "x", "y", "z",
     "A", "B", "C", "D", "E", "F", "G", "H", "I", "J", "K", "L", "M",
     "N", "O", "P", "Q", "R", "S", "T", "U", "V", "W", "X", "Y", "Z"}
Undefined == "undefined"
Nul == "NUL"

\* this.input[pos]
CharAt(input, pos) == IF pos < Len(input) THEN input[pos + 1] ELSE Undefined

\* Lexer.peek, relative to pos
peek(input, pos, offset) == IF pos + offset >= Len(input) THEN Nul ELSE input[pos + offset + 1]

isDigit(char) == char \in Digits
isIdentifierStart(char) == char \in Letters \/ char = "_"
isIdentifierChar(char) ==
    isIdentifierStart(char) \/ isDigit(char) \/ char = ":" \/ char = "_" \/ char = "-"

\* input.slice(from, to)
Slice(input, from, to) == SubSeq(input, from + 1, IF to > Len(input) THEN Len(input) ELSE to)

\* String.prototype.trim
RECURSIVE TrimStart(_)
TrimStart(str) ==
    IF str # <<>> /\ Head(str) \in Whitespace THEN TrimStart(Tail(str)) ELSE str

RECURSIVE trimEnd(_)
trimEnd(str) ==
    IF str # <<>> /\ str[Len(str)] \in Whitespace
    THEN trimEnd(SubSeq(str, 1, Len(str) - 1)) ELSE str

Trim(str) == trimEnd(TrimStart(str))

\* the first position from pos on, at most `limit` further, whose character
\* fails Keep: the scanning loops `while (pos < length && Keep(input[pos]))`
RECURSIVE ScanWhile(_, _, _, _)
ScanWhile(input, pos, Keep(_), limit) ==
    IF limit > 0 /\ pos < Len(input) /\ Keep(input[pos + 1])
    THEN ScanWhile(input, pos + 1, Keep, limit - 1)
    ELSE pos

NoLimit(input) == Len(input) + 1

\* Lexer.addToken: the column is the current column less the value's length
addToken(st, type, value) ==
    [st EXCEPT !.tokens = Append(st.tokens,
        [type |-> type, value |-> value, line |-> st.line,
         column |-> st.column - Len(value)])]

\* the cursor moved to `end` on the same line
Advance(st, end) == [st EXCEPT !.pos = end, !.column = st.column + (end - st.pos)]

\* Lexer.isDateStart
isDateStart(input, pos) ==
    /\ ~(pos + 4 >= Len(input))
    /\ \A i \in 0..3 : isDigit(input[pos + i + 1])
    /\ input[pos + 5] \in {"/", "-"}

\* Lexer.scanDate: the end of the date, or None when a separator is missing
\* (the cursor is then back at the start)
scanDate(input, start) ==
    LET y == ScanWhile(input, start, isDigit, 4)
    IN IF CharAt(input, y) \notin {"/", "-"} THEN None
       ELSE LET m == ScanWhile(input, y + 1, isDigit, 2)
            IN IF CharAt(input, m) \notin {"/", "-"} THEN None
               ELSE Some(ScanWhile(input, m + 1, isDigit, 2))

\* Lexer.scanQuotedCommodity: the end of the quoted commodity
scanQuotedCommodity(input, start) ==
    LET close == ScanWhile(input, start + 1, LAMBDA c : c # "\"", NoLimit(input))
    IN IF CharAt(input, close) = "\"" THEN close + 1 ELSE close

\* Lexer.scanNumber: the end of the number
scanNumber(input, start) ==
    LET digits == IF CharAt(input, start) = "-" THEN start + 1 ELSE start
        int == ScanWhile(input, digits, isDigit, NoLimit(input))
    IN IF CharAt(input, int) = "."
       THEN ScanWhile(input, int + 1, isDigit, NoLimit(input))
       ELSE int

\* Lexer.scanIdentifier
scanIdentifier(input, start) == ScanWhile(input, start, isIdentifierChar, NoLimit(input))

\* Lexer.scanText
scanText(input, start) ==
    ScanWhile(input, start, LAMBDA c : c # "\n" /\ c # ";", NoLimit(input))

\* the date branch of scanToken, taken when isDateStart and scanDate succeed
DateEnd(input, pos) == IF isDateStart(input, pos) THEN scanDate(input, pos) ELSE None

\* a carriage return that is left where it stands
CarriageReturn_Stay(st) == st

\* the carriage-return branch of scanToken
CarriageReturn(st) == [st EXCEPT !.pos = st.pos + 1]

\* Lexer.scanToken
scanToken(input, st) ==
    LET pos == st.pos
        char == CharAt(input, pos)
    IN IF char = "\n"
       THEN [addToken(st, "NEWLINE", <<"\n">>)
                EXCEPT !.pos = pos + 1, !.line = st.line + 1, !.column = 1]
       ELSE IF char = "\r" THEN CarriageReturn(st)
       ELSE IF st.column = 1 /\ char \in {" ", "\t"}
       THEN LET end == ScanWhile(input, pos, LAMBDA c : c \in {" ", "\t"}, NoLimit(input))
            IN addToken(Advance(st, end), "INDENT", Slice(input, pos, end))
       ELSE IF char \in {" ", "\t"} THEN Advance(st, pos + 1)
       ELSE IF char = ";"
       THEN LET end == ScanWhile(input, pos, LAMBDA c : c # "\n", NoLimit(input))
            IN addToken(Advance(st, end), "COMMENT", Slice(input, pos, end))
       ELSE IF char = "P" /\ st.column = 1 /\ peek(input, pos, 1) = " "
       THEN Advance(addToken(st, "PRICE_DIRECTIVE", <<"P">>), pos + 1)
       ELSE IF DateEnd(input, pos) # None
       THEN LET end == DateEnd(input, pos)[1]
            IN addToken(Advance(st, end), "DATE", Slice(input, pos, end))
       ELSE IF char = "\""
       THEN LET end == scanQuotedCommodity(input, pos)
            IN addToken(Advance(st, end), "QUOTED_COMMODITY", Slice(input, pos, end))
       ELSE IF char = "-" /\ (peek(input, pos, 1) = "$" \/ isDigit(peek(input, pos, 1)))
       THEN Advance(addToken(st, "MINUS", <<"-">>), pos + 1)
       ELSE IF char = "$"
       THEN Advance(addToken(st, "COMMODITY", <<"$">>), pos + 1)
       ELSE IF isDigit(char) \/ (char = "-" /\ isDigit(peek(input, pos, 1)))
       THEN LET end == scanNumber(input, pos)
            IN addToken(Advance(st, end), "NUMBER", Slice(input, pos, end))
       ELSE IF isIdentifierStart(char)
       THEN LET end == scanIdentifier(input, pos)
                identifier == Slice(input, pos, end)
            IN IF \E i \in 1..Len(identifier) : identifier[i] = ":"
               THEN addToken(Advance(st, end), "ACCOUNT", identifier)
               ELSE addToken(Advance(st, end), "COMMODITY", identifier)
       ELSE LET end == scanText(input, pos)
            IN addToken(Advance(st, end), "TEXT", Trim(Slice(input, pos, end)))

\* the loop of tokenize, `while (this.pos < this.input.length) scanToken()`,
\* run for at most 2^k rounds; every round moves pos forward
RECURSIVE ScanRounds(_, _, _)
ScanRounds(input, st, k) ==
    IF st.pos >= Len(input) THEN st
    ELSE IF k = 0 THEN scanToken(input, st)
    ELSE With(ScanRounds(input, st, k - 1), LAMBDA half : ScanRounds(input, half, k - 1))

ScanAll(input, st) ==
    LET k == CHOOSE n \in 0..Len(input) :
                 2 ^ n >= Len(input) /\ \A m \in 0..(n - 1) : 2 ^ m < Len(input)
    IN ScanRounds(input, st, k)

\* Lexer.tokenize
tokenize(input) ==
    With(ScanAll(input, [pos |-> 0, line |-> 1, column |-> 1, tokens |-> <<>>]), LAMBDA st :
        Append(st.tokens,
               [type |-> "EOF", value |-> <<>>, line |-> st.line, column |-> st.column]))

(***************************************************************************)
(* Parser (adapters/git/parser/parser.ts).  pos counts from 0 as in the    *)
(* source.  A parsing method yields [ok, pos, val]; a thrown ParseError is *)
(* [ok |-> FALSE] with the error as val, and is passed on by every caller. *)
(***************************************************************************)
\* Parser.peek
Tok(tokens, pos) == tokens[pos + 1]

isAtEnd(tokens, pos) == Tok(tokens, pos).type = "EOF"

check(tokens, pos, type) ==
    IF isAtEnd(tokens, pos) THEN FALSE ELSE Tok(tokens, pos).type = type

\* Parser.advance: the position after it; the token it returns is Tok at the
\* position before
advance(tokens, pos) == IF ~isAtEnd(tokens, pos) THEN pos + 1 ELSE pos

Ok(pos, val) == [ok |-> TRUE, pos |-> pos, val |-> val]

ParseError(message, tokens, pos) ==
    [ok |-> FALSE, pos |-> pos,
     val |-> [kind |-> "ParseError", message |-> message,
              line |-> Tok(tokens, pos).line, column |-> Tok(tokens, pos).column]]

RECURSIVE skipNewlines(_, _)
skipNewlines(tokens, pos) ==
    IF check(tokens, pos, "NEWLINE")
    THEN With(advance(tokens, pos), LAMBDA next : skipNewlines(tokens, next))
    ELSE pos

RECURSIVE skipToEndOfLine(_, _)
skipToEndOfLine(tokens, pos) ==
    IF ~isAtEnd(tokens, pos) /\ ~check(tokens, pos, "NEWLINE")
    THEN With(advance(tokens, pos), LAMBDA next : skipToEndOfLine(tokens, next))
    ELSE pos

skipLine(tokens, pos) ==
    With(skipToEndOfLine(tokens, pos), LAMBDA end :
        IF check(tokens, end, "NEWLINE") THEN advance(tokens, end) ELSE end)

\* value.replace(/^;+\s*/, '')
RECURSIVE DropSemicolons(_)
DropSemicolons(str) ==
    IF str # <<>> /\ Head(str) = ";" THEN DropSemicolons(Tail(str)) ELSE str

CommentText(value) ==
    IF value # <<>> /\ Head(value) = ";" THEN TrimStart(DropSemicolons(value)) ELSE value

\* the optional comment of a line: [pos, comment]
OptionalComment(tokens, pos) ==
    IF check(tokens, pos, "COMMENT")
    THEN [pos |-> advance(tokens, pos), comment |-> Some(CommentText(Tok(tokens, pos).value))]
    ELSE [pos |-> pos, comment |-> None]

parseNumberValue(tokens, pos) ==
    LET minus == check(tokens, pos, "MINUS")
        p1 == IF minus THEN advance(tokens, pos) ELSE pos
    IN IF check(tokens, p1, "NUMBER")
       THEN Ok(advance(tokens, p1),
               (IF minus THEN S("-") ELSE <<>>) \o Tok(tokens, p1).value)
       ELSE ParseError("Expected number", tokens, p1)

\* parseCommoditySymbol that assumes "$" where no commodity stands
parseCommoditySymbol_AssumeDollar(tokens, pos) ==
    IF check(tokens, pos, "QUOTED_COMMODITY")
    THEN Ok(advance(tokens, pos), SubSeq(Tok(tokens, pos).value, 2, Len(Tok(tokens, pos).value) - 1))
    ELSE IF check(tokens, pos, "COMMODITY")
    THEN Ok(advance(tokens, pos), Tok(tokens, pos).value)
    ELSE Ok(pos, S("$"))

parseCommoditySymbol(tokens, pos) ==
    IF check(tokens, pos, "QUOTED_COMMODITY")
    THEN LET value == Tok(tokens, pos).value
         IN Ok(advance(tokens, pos), SubSeq(value, 2, Len(value) - 1))
    ELSE IF check(tokens, pos, "COMMODITY")
    THEN Ok(advance(tokens, pos), Tok(tokens, pos).value)
    ELSE ParseError("Expected commodity symbol", tokens, pos)

\* AmountNode that strips the number's sign without flipping the flag
AmountNode_KeepFlag(quantity, commodity, isNegative, commodityPosition) ==
    LET minus == quantity # <<>> /\ Head(quantity) = "-"
    IN [quantity |-> IF minus THEN Tail(quantity) ELSE quantity,
        commodity |-> commodity,
        isNegative |-> isNegative,
        commodityPosition |-> commodityPosition]

AmountNode(quantity, commodity, isNegative, commodityPosition) ==
    LET minus == quantity # <<>> /\ Head(quantity) = "-"
    IN [quantity |-> IF minus THEN Tail(quantity) ELSE quantity,
        commodity |-> commodity,
        isNegative |-> IF minus THEN ~isNegative ELSE isNegative,
        commodityPosition |-> commodityPosition]

\* the quantity that follows the commodity c, parsed as q
PrefixAmount(c, q, isNegative) ==
    IF ~q.ok THEN q ELSE Ok(q.pos, AmountNode(q.val, c, isNegative, "prefix"))

parseAmount(tokens, pos) ==
    LET isNegative == check(tokens, pos, "MINUS")
        p1 == IF isNegative THEN advance(tokens, pos) ELSE pos
    IN IF check(tokens, p1, "COMMODITY") /\ Tok(tokens, p1).value = S("$")
       THEN With(parseNumberValue(tokens, advance(tokens, p1)), LAMBDA q :
                PrefixAmount(S("$"), q, isNegative))
       ELSE IF check(tokens, p1, "COMMODITY") \/ check(tokens, p1, "QUOTED_COMMODITY")
       THEN With(parseCommoditySymbol(tokens, p1), LAMBDA c :
                IF ~c.ok THEN c
                ELSE IF check(tokens, c.pos, "NUMBER") \/ check(tokens, c.pos, "MINUS")
                THEN With(parseNumberValue(tokens, c.pos), LAMBDA q :
                         PrefixAmount(c.val, q, isNegative))
                ELSE ParseError("Expected number after commodity", tokens, c.pos))
       ELSE IF check(tokens, p1, "NUMBER")
       THEN With(parseNumberValue(tokens, p1), LAMBDA q :
                IF check(tokens, q.pos, "COMMODITY") \/ check(tokens, q.pos, "QUOTED_COMMODITY")
                THEN With(parseCommoditySymbol(tokens, q.pos), LAMBDA c :
                         Ok(c.pos, AmountNode(q.val, c.val, isNegative, "suffix")))
                ELSE Ok(q.pos, AmountNode(q.val, S("$"), isNegative, "prefix")))
       ELSE ParseError("Expected amount", tokens, p1)

Includes(str, char) == \E i \in 1..Len(str) : str[i] = char

\* "Some accounts might be split across tokens": [pos, account]
RECURSIVE AccountLoop(_, _, _)
AccountLoop(tokens, pos, account) ==
    IF (check(tokens, pos, "COMMODITY") \/ check(tokens, pos, "ACCOUNT"))
       /\ Includes(Tok(tokens, pos).value, ":")
    THEN With(advance(tokens, pos), LAMBDA next :
             AccountLoop(tokens, next, account \o Tok(tokens, pos).value))
    ELSE [pos |-> pos, account |-> account]

\* the rest of parsePosting once the account is read
PostingNode(tokens, a, lineNumber) ==
    LET hasAmount == \/ check(tokens, a.pos, "MINUS")
                     \/ check(tokens, a.pos, "COMMODITY")
                     \/ check(tokens, a.pos, "QUOTED_COMMODITY")
                     \/ check(tokens, a.pos, "NUMBER")
    IN With(IF hasAmount THEN parseAmount(tokens, a.pos) ELSE Ok(a.pos, None), LAMBDA amount :
           IF ~amount.ok THEN amount
           ELSE With(OptionalComment(tokens, amount.pos), LAMBDA c :
                    Ok(skipToEndOfLine(tokens, c.pos),
                       Some([type |-> "posting",
                             account |-> a.account,
                             amount |-> IF hasAmount THEN Some(amount.val) ELSE None,
                             comment |-> c.comment,
                             lineNumber |-> lineNumber]))))

\* val is None for the null the source returns, else Some(PostingNode)
parsePosting(tokens, pos) ==
    LET lineNumber == Tok(tokens, pos).line
        p0 == advance(tokens, pos)
    IN IF check(tokens, p0, "NEWLINE") \/ check(tokens, p0, "EOF") THEN Ok(p0, None)
       ELSE IF check(tokens, p0, "COMMENT") THEN Ok(advance(tokens, p0), None)
       ELSE IF ~check(tokens, p0, "ACCOUNT") /\ ~check(tokens, p0, "COMMODITY")
       THEN Ok(skipLine(tokens, p0), None)
       ELSE With(AccountLoop(tokens, advance(tokens, p0), Tok(tokens, p0).value), LAMBDA a :
                PostingNode(tokens, a, lineNumber))

\* the description loop of parseTransaction: [pos, description]
RECURSIVE DescriptionLoop(_, _, _)
DescriptionLoop(tokens, pos, description) ==
    IF ~isAtEnd(tokens, pos) /\ ~check(tokens, pos, "NEWLINE") /\ ~check(tokens, pos, "COMMENT")
    THEN LET token == Tok(tokens, pos)
         IN With(IF token.type \in {"TEXT", "COMMODITY", "NUMBER", "DATE"}
                 THEN description \o (IF description # <<>> THEN S(" ") ELSE <<>>) \o token.value
                 ELSE description,
                 LAMBDA longer :
                     With(advance(tokens, pos), LAMBDA next :
                         DescriptionLoop(tokens, next, longer)))
    ELSE [pos |-> pos, description |-> description]

\* the postings loop of parseTransaction
RECURSIVE PostingsLoop(_, _, _)
PostingsLoop(tokens, pos, postings) ==
    IF check(tokens, pos, "INDENT")
    THEN With(parsePosting(tokens, pos), LAMBDA posting :
             IF ~posting.ok THEN posting
             ELSE With(skipNewlines(tokens, posting.pos), LAMBDA next :
                      With(postings \o posting.val, LAMBDA longer :
                          PostingsLoop(tokens, next, longer))))
    ELSE Ok(pos, postings)

parseTransaction(tokens, pos) ==
    LET dateToken == Tok(tokens, pos)
    IN With(DescriptionLoop(tokens, advance(tokens, pos), <<>>), LAMBDA d :
       With(OptionalComment(tokens, d.pos), LAMBDA c :
       With(PostingsLoop(tokens, skipNewlines(tokens, c.pos), <<>>), LAMBDA postings :
           IF ~postings.ok THEN postings
           ELSE Ok(postings.pos,
                   [type |-> "transaction",
                    date |-> dateToken.value,
                    description |-> Trim(d.description),
                    postings |-> postings.val,
                    comment |-> c.comment,
                    lineNumber |-> dateToken.line]))))

\* the rest of parsePriceDirective once the price is read
PriceNode(lineNumber, date, baseCommodity, quoteCommodity, price, tokens) ==
    IF ~price.ok THEN price
    ELSE With(OptionalComment(tokens, price.pos), LAMBDA c :
             Ok(skipToEndOfLine(tokens, c.pos),
                [type |-> "price", date |-> date, baseCommodity |-> baseCommodity,
                 quoteCommodity |-> quoteCommodity, price |-> price.val,
                 comment |-> c.comment, lineNumber |-> lineNumber]))

parsePriceDirective(tokens, pos) ==
    LET lineNumber == Tok(tokens, pos).line
        p0 == advance(tokens, pos)
        date == Tok(tokens, p0).value
    IN IF ~check(tokens, p0, "DATE") THEN ParseError("Expected date after P", tokens, p0)
       ELSE With(parseCommoditySymbol(tokens, advance(tokens, p0)), LAMBDA base :
               IF ~base.ok THEN base
               ELSE IF check(tokens, base.pos, "COMMODITY") /\ Tok(tokens, base.pos).value = S("$")
               THEN With(parseNumberValue(tokens, advance(tokens, base.pos)), LAMBDA price :
                        PriceNode(lineNumber, date, base.val, S("$"), price, tokens))
               ELSE IF check(tokens, base.pos, "COMMODITY")
                       \/ check(tokens, base.pos, "QUOTED_COMMODITY")
               THEN With(parseCommoditySymbol(tokens, base.pos), LAMBDA quote :
                    With(parseNumberValue(tokens, quote.pos), LAMBDA price :
                        PriceNode(lineNumber, date, base.val, quote.val, price, tokens)))
               ELSE IF check(tokens, base.pos, "NUMBER") \/ check(tokens, base.pos, "MINUS")
               THEN With(parseNumberValue(tokens, base.pos), LAMBDA price :
                        PriceNode(lineNumber, date, base.val, S("$"), price, tokens))
               ELSE ParseError("Expected quote commodity or price", tokens, base.pos))

parseStandaloneComment(tokens, pos) ==
    Ok(advance(tokens, pos),
       [type |-> "comment", text |-> CommentText(Tok(tokens, pos).value),
        lineNumber |-> Tok(tokens, pos).line])

\* val is None for the null of an unknown line, else Some(entry)
parseEntry(tokens, pos) ==
    IF check(tokens, pos, "COMMENT") \/ check(tokens, pos, "PRICE_DIRECTIVE")
       \/ check(tokens, pos, "DATE")
    THEN With(IF check(tokens, pos, "COMMENT") THEN parseStandaloneComment(tokens, pos)
              ELSE IF check(tokens, pos, "PRICE_DIRECTIVE")
              THEN parsePriceDirective(tokens, pos)
              ELSE parseTransaction(tokens, pos),
              LAMBDA r : IF ~r.ok THEN r ELSE Ok(r.pos, Some(r.val)))
    ELSE Ok(skipLine(tokens, pos), None)

RECURSIVE ParseLoop(_, _, _)
ParseLoop(tokens, pos, entries) ==
    IF isAtEnd(tokens, pos) THEN Ok(pos, entries)
    ELSE With(skipNewlines(tokens, pos), LAMBDA p1 :
             IF isAtEnd(tokens, p1) THEN Ok(p1, entries)
             ELSE With(parseEntry(tokens, p1), LAMBDA entry :
                      IF ~entry.ok THEN entry
                      ELSE With(entries \o entry.val, LAMBDA longer :
                               ParseLoop(tokens, entry.pos, longer))))

\* the fields of a Parser as its declaration initialises them
NewParser == [tokens |-> <<>>, pos |-> 0]

\* the first two assignments of Parser.parse: a Parser that earlier parsed
\* keeps the tokens of its last input and the position it stopped at
Begin_KeepTokens(self, tokens) ==
    [tokens |-> IF self.tokens = <<>> THEN tokens ELSE self.tokens, pos |-> 0]

Begin(self, tokens) == [tokens |-> tokens, pos |-> 0]

\* Parser.parse on the Parser self: result is [ok |-> TRUE, val |-> the entries
\* of the JournalAST] or the ParseError it throws, self the Parser's fields
\* once the call is over
ParserParse(self, input) ==
    With(tokenize(input), LAMBDA tokens :
    With(Begin(self, tokens), LAMBDA begun :
    With(ParseLoop(begun.tokens, begun.pos, <<>>), LAMBDA result :
        [result |-> result, self |-> [tokens |-> begun.tokens, pos |-> result.pos]])))

\* new Parser().parse(input)
parse(input) == ParserParse(NewParser, input).result

(***************************************************************************)
(* JournalWriter (adapters/git/serializer/journal-writer.ts).  A Date is   *)
(* the integer yyyymmdd of its UTC day, a Decimal a whole number.          *)
(***************************************************************************)
amountAlignment == 50
indentSize == 2

DigitChars == <<"0", "1", "2", "3", "4", "5", "6", "7", "8", "9">>

\* Decimal.toString / String(n) of a whole number
RECURSIVE toString(_)
toString(n) ==
    IF n < 0 THEN <<"-">> \o toString(0 - n)
    ELSE IF n < 10 THEN <<DigitChars[n + 1]>>
    ELSE toString(n \div 10) \o <<DigitChars[(n % 10) + 1]>>

(***************************************************************************)
(* The Decimal of a rate: a fraction in lowest terms with a positive       *)
(* denominator.  decimal.js keeps 20 significant digits; the rates of this *)
(* model are whole numbers whose reciprocals are finite decimals far       *)
(* shorter than that, so that the fractions are the Decimals exactly.      *)
(***************************************************************************)
RECURSIVE Gcd(_, _)
Gcd(a, b) == IF b = 0 THEN a ELSE Gcd(b, a % b)

Magnitude(n) == IF n < 0 THEN 0 - n ELSE n

Fraction(num, den) ==
    LET g == Gcd(Magnitude(num), Magnitude(den))
        sign == IF den < 0 THEN -1 ELSE 1
    IN [num |-> sign * (num \div g), den |-> sign * (den \div g)]

\* new Decimal(n) of a whole number
Dec(n) == [num |-> n, den |-> 1]

\* Decimal.plus, Decimal.times and Decimal.div (of a non-zero divisor)
plus(a, b) == Fraction(a.num * b.den + b.num * a.den, a.den * b.den)
times(a, b) == Fraction(a.num * b.num, a.den * b.den)
div(a, b) == Fraction(a.num * b.den, a.den * b.num)

\* the digits after the point of rem / den, a finite decimal
RECURSIVE FractionDigits(_, _)
FractionDigits(rem, den) ==
    IF rem = 0 THEN <<>>
    ELSE <<DigitChars[((10 * rem) \div den) + 1]>> \o FractionDigits((10 * rem) % den, den)

\* Decimal.toString
decimalToString(d) ==
    IF d.den = 1 THEN toString(d.num)
    ELSE (IF d.num < 0 THEN <<"-">> ELSE <<>>)
         \o toString(Magnitude(d.num) \div d.den) \o <<".">>
         \o FractionDigits(Magnitude(d.num) % d.den, d.den)

\* new Price(props): a Decimal price is kept, a number is made a Decimal
NewPrice(date, baseCommodity, quoteCommodity, price, comment) ==
    [date |-> date, baseCommodity |-> baseCommodity, quoteCommodity |-> quoteCommodity,
     price |-> price, comment |-> comment]

\* Price.invert
invert(price) ==
    NewPrice(price.date, price.quoteCommodity, price.baseCommodity,
             div(Dec(1), price.price), price.comment)

\* Price.convert
convert(price, quantity) == times(quantity, price.price)

\* ' '.repeat(n)
Spaces(n) == [i \in 1..n |-> " "]

\* String(n).padStart(2, '0')
padStart2(n) == IF n < 10 THEN <<"0">> \o toString(n) ELSE toString(n)

formatDate(date) ==
    toString(date \div 10000) \o S("/") \o padStart2((date \div 100) % 100)
        \o S("/") \o padStart2(date % 100)

formatCommodity(commodity) ==
    IF \/ \E i \in 1..Len(commodity) :
              commodity[i] \notin (Letters \cup Digits \cup {"_", "-"})
       \/ (commodity # <<>> /\ Head(commodity) \in Digits)
    THEN S("\"") \o commodity \o S("\"")
    ELSE commodity

formatAmount(posting) ==
    IF posting.commodity = S("$")
    THEN IF posting.quantity < 0
         THEN S("-$ ") \o toString(0 - posting.quantity)
         ELSE S("$ ") \o toString(posting.quantity)
    ELSE formatCommodity(posting.commodity) \o S(" ") \o toString(posting.quantity)

writePosting(posting) ==
    LET baseLength == indentSize + Len(posting.account)
        padding == IF amountAlignment - baseLength > 4 THEN amountAlignment - baseLength ELSE 4
    IN Spaces(indentSize) \o posting.account \o Spaces(padding) \o formatAmount(posting)

writeTransaction(transaction) ==
    LET commentParts ==
            (IF transaction.externalId # None /\ transaction.externalId # Some(<<>>)
             THEN <<S("extid:") \o transaction.externalId[1]>> ELSE <<>>)
            \o (IF transaction.comment # None /\ transaction.comment # Some(<<>>)
                THEN transaction.comment ELSE <<>>)
        header == formatDate(transaction.date) \o S(" ") \o transaction.description
                  \o (IF commentParts # <<>> THEN S(" ; ") \o Join(commentParts, S(" ")) ELSE <<>>)
    IN Join(<<header>> \o [i \in 1..Len(transaction.postings) |->
                              writePosting(transaction.postings[i])], S("\n"))

writePrice(price) ==
    S("P ") \o formatDate(price.date) \o S(" ") \o formatCommodity(price.baseCommodity)
        \o S(" ") \o formatCommodity(price.quoteCommodity) \o S(" ") \o decimalToString(price.price)
        \o (IF price.comment # None /\ price.comment # Some(<<>>)
            THEN S(" ;; ") \o price.comment[1] ELSE <<>>)

\* a sort by date that puts an entry before the earlier entries of its date
RECURSIVE SortByDate_TiesReversed(_)
SortByDate_TiesReversed(entries) ==
    IF entries = <<>> THEN <<>>
    ELSE LET last == entries[Len(entries)]
             sorted == SortByDate_TiesReversed(SubSeq(entries, 1, Len(entries) - 1))
         IN SelectSeq(sorted, LAMBDA e : e.date < last.date) \o <<last>>
            \o SelectSeq(sorted, LAMBDA e : e.date >= last.date)

\* allEntries.sort by date: Array.prototype.sort is stable
RECURSIVE SortByDate(_)
SortByDate(entries) ==
    IF entries = <<>> THEN <<>>
    ELSE LET last == entries[Len(entries)]
             sorted == SortByDate(SubSeq(entries, 1, Len(entries) - 1))
             before == SelectSeq(sorted, LAMBDA e : e.date <= last.date)
             after == SelectSeq(sorted, LAMBDA e : e.date > last.date)
         IN before \o <<last>> \o after

RECURSIVE EntryLines(_)
EntryLines(allEntries) ==
    IF allEntries = <<>> THEN <<>>
    ELSE LET e == Head(allEntries)
         IN <<IF e.type = "transaction" THEN writeTransaction(e.entry) ELSE writePrice(e.entry),
              <<>>>> \o EntryLines(Tail(allEntries))

writeEntries(transactions, prices) ==
    LET allEntries ==
            [i \in 1..Len(transactions) |->
                [date |-> transactions[i].date, type |-> "transaction", entry |-> transactions[i]]]
            \o [i \in 1..Len(prices) |->
                [date |-> prices[i].date, type |-> "price", entry |-> prices[i]]]
    IN Join(EntryLines(SortByDate(allEntries)), S("\n"))

\* appendToJournal that trims the existing text at both ends
appendToJournal_Trim(existingContent, newTransactions, newPrices) ==
    (IF Len(Trim(existingContent)) > 0 THEN Trim(existingContent) \o S("\n\n") ELSE <<>>)
    \o writeEntries(newTransactions, newPrices)

appendToJournal(existingContent, newTransactions, newPrices) ==
    LET result == trimEnd(existingContent)
    IN (IF Len(result) > 0 THEN result \o S("\n\n") ELSE result)
       \o writeEntries(newTransactions, newPrices)

(***************************************************************************)
(* FileLedgerRepository / GitLedgerRepository: from the AST to the domain. *)
(***************************************************************************)
InvalidDate == -1

\* new Decimal(str) for the Lexer's NUMBER values; the journals of this
\* model carry whole quantities, so the digits after a '.' are not read
RECURSIVE DecimalOf(_, _)
DecimalOf(str, acc) ==
    IF str = <<>> \/ Head(str) \notin Digits THEN acc
    ELSE DecimalOf(Tail(str),
                   10 * acc + (CHOOSE d \in 0..9 : DigitChars[d + 1] = Head(str)))

\* FileLedgerRepository.parseDate: yyyy-mm-dd after the '/' are replaced
parseDate(dateStr) ==
    IF /\ Len(dateStr) = 10
       /\ \A i \in {1, 2, 3, 4, 6, 7, 9, 10} : dateStr[i] \in Digits
       /\ \A i \in {5, 8} : dateStr[i] \in {"/", "-"}
       /\ DecimalOf(SubSeq(dateStr, 6, 7), 0) \in 1..12
       /\ DecimalOf(SubSeq(dateStr, 9, 10), 0) \in 1..31
    THEN DecimalOf(SubSeq(dateStr, 1, 4), 0) * 10000
         + DecimalOf(SubSeq(dateStr, 6, 7), 0) * 100 + DecimalOf(SubSeq(dateStr, 9, 10), 0)
    ELSE InvalidDate

nodeToPosting(node) ==
    LET quantity == DecimalOf(node.amount[1].quantity, 0)
    IN Posting(node.account,
               IF node.amount[1].isNegative THEN 0 - quantity ELSE quantity,
               node.amount[1].commodity)

ElidedQuantity_SameSign(sum) == sum

\* sum.negated()
ElidedQuantity(sum) == 0 - sum

\* the postings pushed for the elided posting: one per non-zero commodity sum
ElidedPostings(elidedAccount, commoditySums) ==
    LET nonZero == SelectSeq(commoditySums, LAMBDA e : e.v # 0)
    IN [i \in 1..Len(nonZero) |->
           Posting(elidedAccount, ElidedQuantity(nonZero[i].v), nonZero[i].k)]

\* the first index where /extid:(\S+)/ matches, 0 when it does not
ExtIdMatch(comment) ==
    LET hits == {i \in 1..Len(comment) :
                    /\ i + 6 <= Len(comment)
                    /\ SubSeq(comment, i, i + 5) = S("extid:")
                    /\ comment[i + 6] \notin Whitespace}
    IN IF hits = {} THEN 0 ELSE CHOOSE i \in hits : \A j \in hits : i <= j

JsError(message) == [kind |-> "Error", message |-> message]

nodeToTransaction(node) ==
    LET postingsWithAmount == SelectSeq(node.postings, LAMBDA p : p.amount # None)
        postingsWithoutAmount == SelectSeq(node.postings, LAMBDA p : p.amount = None)
        explicit == [i \in 1..Len(postingsWithAmount) |-> nodeToPosting(postingsWithAmount[i])]
        postings ==
            IF Len(postingsWithoutAmount) = 1
            THEN explicit \o ElidedPostings(postingsWithoutAmount[1].account,
                                            ImbalancesFrom(explicit, <<>>))
            ELSE explicit
        hasComment == node.comment # None /\ node.comment # Some(<<>>)
        at == IF hasComment THEN ExtIdMatch(node.comment[1]) ELSE 0
        idEnd == ScanWhile(node.comment[1], at + 5, LAMBDA c : c \notin Whitespace,
                           NoLimit(node.comment[1]))
        rest == Trim(SubSeq(node.comment[1], 1, at - 1)
                     \o TrimStart(Slice(node.comment[1], idEnd, Len(node.comment[1]))))
    IN IF Len(postingsWithoutAmount) > 1
       THEN JsError("Only one posting may have an elided amount")
       ELSE IF \E i \in 1..Len(node.postings) : IsBlank(node.postings[i].account)
       THEN JsError("Account name cannot be empty")
       ELSE NewTransaction(
                [id |-> Some(node.date \o S("-") \o toString(node.lineNumber)),
                 date |-> parseDate(node.date),
                 description |-> node.description,
                 postings |-> postings,
                 comment |-> IF at = 0 THEN node.comment
                             ELSE IF rest = <<>> THEN None ELSE Some(rest),
                 externalId |-> IF at = 0 THEN None
                                ELSE Some(Slice(node.comment[1], at + 5, idEnd)),
                 skipValidation |-> FALSE])

Converted_Always(t) == TRUE

\* the try block of loadTransactions: nodeToTransaction returned
Converted(t) == t.kind = "Transaction"

\* the parsing half of loadTransactions: the ParseError it rejects with, or
\* the transactions of the entries whose conversion does not throw
loadTransactions(content) ==
    With(parse(content), LAMBDA ast :
        IF ~ast.ok THEN ast
        ELSE With(SelectSeq(ast.val, LAMBDA e : e.type = "transaction"), LAMBDA nodes :
                 Ok(ast.pos, SelectSeq([i \in 1..Len(nodes) |-> nodeToTransaction(nodes[i])],
                                       Converted))))

\* new Decimal(str) of a NUMBER value with its sign: the digits before the
\* point and the digits after it
decimalOf(str) ==
    LET negative == str # <<>> /\ Head(str) = "-"
        digits == IF negative THEN Tail(str) ELSE str
        point == IF Includes(digits, ".")
                 THEN CHOOSE i \in 1..Len(digits) :
                          digits[i] = "." /\ \A j \in 1..(i - 1) : digits[j] # "."
                 ELSE Len(digits) + 1
        whole == DecimalOf(SubSeq(digits, 1, point - 1), 0)
        after == SubSeq(digits, point + 1, Len(digits))
        value == plus(Dec(whole), Fraction(DecimalOf(after, 0), 10 ^ Len(after)))
    IN IF negative THEN times(Dec(-1), value) ELSE value

\* FilePriceRepository.nodeToPrice
nodeToPrice(node) ==
    NewPrice(parseDate(node.date), node.baseCommodity, node.quoteCommodity,
             decimalOf(node.price), node.comment)

\* the parsing half of loadPrices: the ParseError it rejects with, or the
\* prices of the price entries (nodeToPrice throws for none of them)
loadPrices(content) ==
    With(parse(content), LAMBDA ast :
        IF ~ast.ok THEN ast
        ELSE With(SelectSeq(ast.val, LAMBDA e : e.type = "price"), LAMBDA nodes :
                 Ok(ast.pos, [i \in 1..Len(nodes) |-> nodeToPrice(nodes[i])])))

\* a.date <= b.date of two Dates: false when either is an Invalid Date
DateLeq(a, b) == a # InvalidDate /\ b # InvalidDate /\ a <= b
DateGreater(a, b) == a # InvalidDate /\ b # InvalidDate /\ a > b

\* the filter callback of listPrices; an absent filter field is None
PriceFilterKeeps(filter, price) ==
    /\ filter.baseCommodity # None /\ filter.baseCommodity # Some(<<>>)
           => price.baseCommodity = filter.baseCommodity[1]
    /\ filter.quoteCommodity # None /\ filter.quoteCommodity # Some(<<>>)
           => price.quoteCommodity = filter.quoteCommodity[1]
    /\ filter.fromDate # None => ~DateGreater(filter.fromDate[1], price.date)
    /\ filter.toDate # None => ~DateGreater(price.date, filter.toDate[1])

\* the filtering half of listPrices; filter is None or Some(PriceFilter)
listPrices(prices, filter) ==
    IF filter = None THEN prices
    ELSE SelectSeq(prices, LAMBDA price : PriceFilterKeeps(filter[1], price))

\* the reduce callback of getPrice that keeps the first of two equal dates
Later_First(a, b) == IF DateGreater(b.date, a.date) THEN b ELSE a

\* the reduce callback of getPrice, (a, b) => a.date > b.date ? a : b
Later(a, b) == IF DateGreater(a.date, b.date) THEN a ELSE b

\* candidates.reduce(...) of a non-empty array
RECURSIVE Latest(_)
Latest(candidates) ==
    IF Len(candidates) = 1 THEN candidates[1]
    ELSE Later(Latest(SubSeq(candidates, 1, Len(candidates) - 1)),
               candidates[Len(candidates)])

\* the choosing half of getPrice: Some(Price), or None for null
getPrice(prices, baseCommodity, quoteCommodity, targetDate) ==
    LET candidates ==
            SelectSeq(prices, LAMBDA price :
                /\ price.baseCommodity = baseCommodity
                /\ price.quoteCommodity = quoteCommodity
                /\ DateLeq(price.date, targetDate))
        inverseCandidates ==
            SelectSeq(prices, LAMBDA price :
                /\ price.baseCommodity = quoteCommodity
                /\ price.quoteCommodity = baseCommodity
                /\ DateLeq(price.date, targetDate))
    IN IF candidates = <<>>
       THEN IF inverseCandidates = <<>> THEN None
            ELSE Some(invert(Latest(inverseCandidates)))
       ELSE Some(Latest(candidates))

(***************************************************************************)
(* The domain state machine: construct transactions from arbitrary props.  *)
(***************************************************************************)
Commodities == {S("$"), S("ETH")}
Quantities == (0 - MaxQty)..MaxQty
TxnDescriptions == {<<>>, S(" "), S("Tea")}
TxnAccount == S("Assets:Cash")
TxnPostings == {Posting(TxnAccount, q, c) : q \in Quantities, c \in Commodities}
Date0 == 20240115

SeqsUpTo(set, n) == UNION {[1..k -> set] : k \in 0..n}

\* the values the variables of a part of the model keep while it is not in use
DomIdle == props = <<>> /\ txn = <<>>
CalcIdle == calcTxns = <<>> /\ calcOptions = <<>> /\ calcResult = <<>>
MatchIdle == accountName = <<>> /\ patternArg = <<>> /\ matched = FALSE
FileIdle == file = <<>> /\ mtime = 0
ParseIdle == lexer = <<>> /\ parser = <<>>
PriceIdle == cachedPrices = <<>> /\ priceCacheVersion = <<>>
RepoIdle ==
    /\ cachedTransactions = None /\ cacheVersion = 0 /\ nodeArg = <<>> /\ arg = <<>>
    /\ answer = <<>> /\ appended = <<>> /\ calls = <<>>

NoProps ==
    [id |-> None, date |-> Date0, description |-> <<>>, postings |-> <<>>,
     comment |-> None, externalId |-> None, skipValidation |-> FALSE]

DomInit ==
    /\ \E d \in TxnDescriptions, ps \in SeqsUpTo(TxnPostings, MaxPostings), skip \in BOOLEAN :
         props = [NoProps EXCEPT !.description = d, !.postings = ps,
                                 !.skipValidation = skip]
    /\ txn = ValidationError("none")
    /\ op = "init"
    /\ MatchIdle /\ ParseIdle /\ PriceIdle
    /\ CalcIdle
    /\ FileIdle
    /\ RepoIdle

\* new Transaction(props) by an API user
Construct ==
    /\ op = "init"
    /\ txn' = NewTransaction(props)
    /\ op' = "new"
    /\ UNCHANGED <<parseVars, priceVars, props, matchVars, calcVars, fileVars, repoVars>>

\* TransactionBuilder.build(): the builder's fields, never skipValidation
Build ==
    /\ op = "init"
    /\ props' = [props EXCEPT !.skipValidation = FALSE]
    /\ txn' = NewTransaction(props')
    /\ op' = "build"
    /\ UNCHANGED <<parseVars, priceVars, matchVars, calcVars, fileVars, repoVars>>

\* t.withId(id) on an existing Transaction
WithId ==
    /\ op \in {"new", "build"}
    /\ txn.kind = "Transaction"
    /\ \E id \in {S("n1"), S("n-2")} :
        /\ props' = PropsOf(txn, id, TRUE)
        /\ txn' = withId(txn, id)
        /\ op' = "withId"
    /\ UNCHANGED <<parseVars, priceVars, matchVars, calcVars, fileVars, repoVars>>

DomNext == Construct \/ Build \/ WithId

SpecTxn == DomInit /\ [][DomNext]_vars

(***************************************************************************)
(* Claims about Transaction construction.                                  *)
(***************************************************************************)
\* the signed sum of the quantities of the postings in commodity c
RECURSIVE SumIn(_, _)
SumIn(postings, c) ==
    IF postings = <<>> THEN 0
    ELSE (IF Head(postings).commodity = c THEN Head(postings).quantity ELSE 0)
         + SumIn(Tail(postings), c)

CommoditiesOf(postings) == {postings[i].commodity : i \in 1..Len(postings)}
Unbalanced(postings) == {c \in CommoditiesOf(postings) : SumIn(postings, c) # 0}
NonBlank(str) == \E i \in 1..Len(str) : str[i] \notin {" ", "\t", "\n", "\r"}

ValidTransaction(t) ==
    /\ NonBlank(t.description)
    /\ Len(t.postings) >= 2
    /\ Unbalanced(t.postings) = {}

\* C1: every Transaction object the API hands out has a non-blank description,
\* at least 2 postings and a zero signed sum in every commodity.
C1_NeverInvalid == txn.kind = "Transaction" => ValidTransaction(txn)

\* C4: without skipValidation the constructor fails with a ValidationError for
\* a blank description, otherwise with a ValidationError for fewer than 2
\* postings, otherwise with a BalanceError listing exactly the commodities of
\* non-zero sum with their signed sums; in every other case it succeeds.
C4_ConstructorOutcome ==
    (op \in {"new", "build"} /\ ~props.skipValidation) =>
        IF ~NonBlank(props.description)
        THEN txn = [kind |-> "ValidationError", field |-> "description"]
        ELSE IF Len(props.postings) < 2
        THEN txn = [kind |-> "ValidationError", field |-> "postings"]
        ELSE IF Unbalanced(props.postings) # {}
        THEN /\ txn.kind = "BalanceError"
             /\ Len(txn.unbalanced) = Cardinality(Unbalanced(props.postings))
             /\ {<<txn.unbalanced[i].k, txn.unbalanced[i].v>> : i \in 1..Len(txn.unbalanced)}
                  = {<<c, SumIn(props.postings, c)>> : c \in Unbalanced(props.postings)}
        ELSE /\ txn.kind = "Transaction"
             /\ txn.description = props.description
             /\ txn.postings = props.postings

\* a three-posting transaction with one balanced and one unbalanced commodity
\* was rejected
C4_Witness ==
    /\ op = "new"
    /\ ~props.skipValidation
    /\ txn.kind = "BalanceError"
    /\ Len(props.postings) = 3
    /\ Cardinality(CommoditiesOf(props.postings)) = 2
    /\ Len(txn.unbalanced) = 1

(***************************************************************************)
(* The patternArg-matching state machine: one matchesPattern call per run.    *)
(***************************************************************************)
SegmentNames == {S("A"), S("B")}
PatternSegments == SegmentNames \cup {S("*"), S("**")}
SeqsFrom1(set, n) == UNION {[1..k -> set] : k \in 1..n}

MatchInit ==
    /\ \E segs \in SeqsFrom1(SegmentNames, MaxSegments) : accountName = Join(segs, S(":"))
    /\ \E pats \in SeqsFrom1(PatternSegments, MaxPatternLen) : patternArg = Join(pats, S(":"))
    /\ matched = FALSE
    /\ op = "init"
    /\ DomIdle /\ ParseIdle /\ PriceIdle
    /\ CalcIdle
    /\ FileIdle
    /\ RepoIdle

\* accountName.matchesPattern(patternArg)
MatchesPattern ==
    /\ op = "init"
    /\ matched' = matchesPattern(accountName, patternArg)
    /\ op' = "matchesPattern"
    /\ UNCHANGED <<parseVars, priceVars, accountName, patternArg, domVars, calcVars, fileVars, repoVars>>

MatchNext == MatchesPattern

SpecMatch == MatchInit /\ [][MatchNext]_vars

\* the reference reading of a pattern: a literal takes one equal segment, '*'
\* takes one segment, '**' takes nothing or one segment more
RECURSIVE RefMatch(_, _)
RefMatch(segs, pats) ==
    IF pats = <<>> THEN segs = <<>>
    ELSE IF Head(pats) = S("**")
         THEN RefMatch(segs, Tail(pats)) \/ (segs # <<>> /\ RefMatch(Tail(segs), pats))
         ELSE /\ segs # <<>>
              /\ (Head(pats) = S("*") \/ Head(pats) = Head(segs))
              /\ RefMatch(Tail(segs), Tail(pats))

\* C8: matchesPattern is true exactly when the segments can be matched in
\* order, a literal against one equal segment, '*' against one segment and
\* '**' against zero or more consecutive segments.
C8_MatchesPattern ==
    op = "matchesPattern" =>
        (matched <=> RefMatch(Split(accountName, ":"), Split(patternArg, ":")))

\* a '**' in the middle of a pattern matched zero segments
C8_Witness ==
    /\ op = "matchesPattern"
    /\ matched
    /\ accountName = S("A:B")
    /\ patternArg = S("A:**:B")


(***************************************************************************)
(* The calculator state machine: one call per run on a bounded ledger of   *)
(* two-posting transfers.                                                  *)
(***************************************************************************)
CalcAccounts == {S("A:B:C"), S("A:B"), S("X")}
CalcCommodities == {S("$"), S("N:A")}
CalcDates == {20240115, 20240120}

Transfer(from, to, q, c, d) ==
    NewTransaction([NoProps EXCEPT !.date = d, !.description = S("Tea"),
                                   !.postings = <<Posting(to, q, c), Posting(from, 0 - q, c)>>])

Transfers ==
    {Transfer(pair[1], pair[2], q, c, d) :
        pair \in {pr \in CalcAccounts \X CalcAccounts : pr[1] # pr[2]},
        q \in 1..MaxQty, c \in CalcCommodities, d \in CalcDates}

CalcInit ==
    /\ calcTxns \in SeqsUpTo(Transfers, MaxTxns)
    /\ calcOptions \in [includeSubaccounts : BOOLEAN,
                         asOfDate : {None} \cup {Some(d) : d \in CalcDates}]
    /\ calcResult = <<>>
    /\ op = "init"
    /\ DomIdle /\ ParseIdle /\ PriceIdle
    /\ MatchIdle
    /\ FileIdle
    /\ RepoIdle

\* calculator.calculatePositions(transactions, {asOfDate})
CalculatePositions ==
    /\ op = "init"
    /\ ~calcOptions.includeSubaccounts
    /\ calcResult' = calculatePositions(calcTxns, calcOptions)
    /\ op' = "calculatePositions"
    /\ UNCHANGED <<parseVars, priceVars, calcTxns, calcOptions, domVars, matchVars, fileVars, repoVars>>

\* calculator.calculateBalances(transactions, options)
CalculateBalances ==
    /\ op = "init"
    /\ calcResult' = calculateBalances(calcTxns, calcOptions)
    /\ op' = "calculateBalances"
    /\ UNCHANGED <<parseVars, priceVars, calcTxns, calcOptions, domVars, matchVars, fileVars, repoVars>>

CalcNext == CalculatePositions \/ CalculateBalances

SpecCalc == CalcInit /\ [][CalcNext]_vars

(***************************************************************************)
(* Claims about the calculator.                                            *)
(***************************************************************************)
RECURSIVE Concat(_)
Concat(seqs) == IF seqs = <<>> THEN <<>> ELSE Head(seqs) \o Concat(Tail(seqs))

PostingsOf(t) == t.postings

\* the postings of the transactions dated on or before the cut-off
CountedPostings ==
    Concat(MapSeq(PostingsOf,
        SelectSeq(calcTxns, LAMBDA t : calcOptions.asOfDate = None
                                        \/ t.date <= calcOptions.asOfDate[1])))

RECURSIVE SumAt(_, _, _)
SumAt(postings, a, c) ==
    IF postings = <<>> THEN 0
    ELSE (IF Head(postings).account = a /\ Head(postings).commodity = c
          THEN Head(postings).quantity ELSE 0) + SumAt(Tail(postings), a, c)

ExpectedPositions ==
    {tr \in {<<CountedPostings[i].account, CountedPostings[i].commodity,
               SumAt(CountedPostings, CountedPostings[i].account,
                     CountedPostings[i].commodity)>> : i \in 1..Len(CountedPostings)} :
        tr[3] # 0}

\* C7: calculatePositions returns exactly one Position for each (account,
\* commodity) whose quantities, summed over the transactions dated on or
\* before asOfDate, are non-zero, carrying that account, commodity and sum.
C7_Positions ==
    op = "calculatePositions" =>
        /\ Len(calcResult) = Cardinality(ExpectedPositions)
        /\ {<<calcResult[i].account, calcResult[i].commodity, calcResult[i].quantity>> :
                i \in 1..Len(calcResult)} = ExpectedPositions

\* Account.isDescendantOf
IsPrefixSeq(short, long) == Len(short) <= Len(long) /\ SubSeq(long, 1, Len(short)) = short
isDescendantOf(name, ancestor) ==
    /\ Len(Split(name, ":")) > Len(Split(ancestor, ":"))
    /\ IsPrefixSeq(Split(ancestor, ":"), Split(name, ":"))

RECURSIVE SumUnder(_, _, _)
SumUnder(positions, a, c) ==
    IF positions = <<>> THEN 0
    ELSE (IF /\ Head(positions).commodity = c
             /\ (Head(positions).account = a \/ isDescendantOf(Head(positions).account, a))
          THEN Head(positions).quantity ELSE 0) + SumUnder(Tail(positions), a, c)

\* C6: with includeSubaccounts every account of the output holds, in every
\* commodity, the sum of the positions of itself and of its descendants,
\* each counted once.
C6_Subaccounts ==
    (op = "calculateBalances" /\ calcOptions.includeSubaccounts) =>
        \A i \in 1..Len(calcResult) :
            \A c \in {p.commodity : p \in {calculatePositions(calcTxns, calcOptions)[j] :
                            j \in 1..Len(calculatePositions(calcTxns, calcOptions))}} :
                MapGet(calcResult[i].positions, c, 0)
                    = SumUnder(calculatePositions(calcTxns, calcOptions),
                               calcResult[i].account, c)

(***************************************************************************)
(* nodeToTransaction on arbitrary TransactionNodes.                        *)
(***************************************************************************)
NodeAccount(i) == S("A:") \o toString(i)
NodeAmounts ==
    {None} \cup {Some([quantity |-> toString(q), commodity |-> c, isNegative |-> n,
                       commodityPosition |-> "prefix"]) :
                    q \in 0..MaxQty, c \in Commodities, n \in BOOLEAN}
NodeHeaders ==
    {[description |-> S("Tea"), comment |-> None],
     [description |-> <<>>, comment |-> Some(S("extid:x1"))]}
TransactionNodes ==
    {[type |-> "transaction", date |-> S("2024/01/15"), description |-> h.description,
      postings |-> [i \in 1..Len(amounts) |->
                       [type |-> "posting", account |-> NodeAccount(i),
                        amount |-> amounts[i], comment |-> None, lineNumber |-> i + 1]],
      comment |-> h.comment, lineNumber |-> 1] :
        h \in NodeHeaders, amounts \in SeqsUpTo(NodeAmounts, MaxNodePostings)}

NodeInit ==
    /\ nodeArg \in TransactionNodes
    /\ op = "init"
    /\ cachedTransactions = None /\ cacheVersion = 0 /\ arg = <<>>
    /\ answer = <<>> /\ appended = <<>> /\ calls = <<>>
    /\ DomIdle /\ MatchIdle /\ CalcIdle /\ FileIdle /\ ParseIdle /\ PriceIdle

NodeToTransaction ==
    /\ op = "init"
    /\ answer' = nodeToTransaction(nodeArg)
    /\ op' = "nodeToTransaction"
    /\ UNCHANGED <<parseVars, priceVars, nodeArg, cachedTransactions, cacheVersion, arg, appended, calls,
                   domVars, matchVars, calcVars, fileVars>>

NodeNext == NodeToTransaction

SpecNode == NodeInit /\ [][NodeNext]_vars

(***************************************************************************)
(* Claims on nodeToTransaction.                                            *)
(***************************************************************************)
ExplicitOf(n) ==
    LET with == SelectSeq(n.postings, LAMBDA p : p.amount # None)
    IN [i \in 1..Len(with) |->
           Posting(with[i].account,
                   (IF with[i].amount[1].isNegative THEN 0 - 1 ELSE 1)
                       * DecimalOf(with[i].amount[1].quantity, 0),
                   with[i].amount[1].commodity)]
ElidedOf(n) == SelectSeq(n.postings, LAMBDA p : p.amount = None)

\* C9: converting a node with exactly one elided posting keeps the explicit
\* postings and adds, on the elided account, exactly one posting of -s for
\* every commodity whose explicit sum s is not zero and none for a commodity
\* whose sum is zero; every commodity then sums to zero and the conversion
\* never fails with a BalanceError.
C9_ElidedInference ==
    (op = "nodeToTransaction" /\ Len(ElidedOf(nodeArg)) = 1) =>
        LET explicit == ExplicitOf(nodeArg)
            elidedAccount == ElidedOf(nodeArg)[1].account
        IN /\ answer.kind # "BalanceError"
           /\ answer.kind = "Transaction" =>
                 LET extra == SubSeq(answer.postings, Len(explicit) + 1, Len(answer.postings))
                 IN /\ SubSeq(answer.postings, 1, Len(explicit)) = explicit
                    /\ \A i \in 1..Len(extra) :
                          /\ extra[i].account = elidedAccount
                          /\ SumIn(explicit, extra[i].commodity) # 0
                          /\ extra[i].quantity = 0 - SumIn(explicit, extra[i].commodity)
                          /\ \A j \in 1..Len(extra) :
                                extra[j].commodity = extra[i].commodity => j = i
                    /\ \A c \in CommoditiesOf(explicit) :
                          SumIn(explicit, c) # 0 =>
                              \E i \in 1..Len(extra) : extra[i].commodity = c
                    /\ \A c \in CommoditiesOf(answer.postings) :
                          SumIn(answer.postings, c) = 0

\* an elided posting that expanded into one posting per commodity
C9_Witness ==
    /\ op = "nodeToTransaction"
    /\ Len(ElidedOf(nodeArg)) = 1
    /\ answer.kind = "Transaction"
    /\ Len(answer.postings) = Len(ExplicitOf(nodeArg)) + 2

(***************************************************************************)
(* Round trip: writeTransaction, then Parser.parse, then nodeToTransaction *)
(* on every TransactionNode of the result.                                 *)
(***************************************************************************)
RtDescriptions == {S("Tea"), S("Tea shop"), S("Lunch: tea"), S("Joe's")}
RtAccounts == {S("Expenses:Food"), S("Expenses:Eat out")}
RtCommodities == {S("$"), S("ETH"), S("N:A")}
RtExternalIds == {None, Some(S("x1")), Some(S("a b"))}
RtComments == {None, Some(S("note"))}
RtProps ==
    {[id |-> None, date |-> Date0, description |-> d,
      postings |-> <<Posting(S("Assets:Cash"), 0 - q, c), Posting(a, q, c)>>,
      comment |-> k, externalId |-> x, skipValidation |-> FALSE] :
        d \in RtDescriptions, a \in RtAccounts, c \in RtCommodities,
        q \in {0 - MaxQty, MaxQty}, k \in RtComments, x \in RtExternalIds}

\* what parsing the text and converting its TransactionNodes gives: the
\* ParseError alone, or one Transaction or conversion error per node
Reparse(text) ==
    With(parse(text), LAMBDA ast :
        IF ~ast.ok THEN <<ast.val>>
        ELSE With(SelectSeq(ast.val, LAMBDA e : e.type = "transaction"), LAMBDA nodes :
                 [i \in 1..Len(nodes) |-> nodeToTransaction(nodes[i])]))

RtInit ==
    /\ props \in RtProps
    /\ txn = NewTransaction(props)
    /\ txn.kind = "Transaction"
    /\ op = "init"
    /\ MatchIdle /\ CalcIdle /\ FileIdle /\ RepoIdle /\ ParseIdle /\ PriceIdle

RoundTrip ==
    /\ op = "init"
    /\ \E text \in {writeTransaction(txn)} :
          /\ file' = text
          /\ answer' = Reparse(text)
    /\ op' = "roundTrip"
    /\ UNCHANGED <<parseVars, priceVars, domVars, matchVars, calcVars, mtime, cachedTransactions, cacheVersion,
                   nodeArg, arg, appended, calls>>

RtNext == RoundTrip

SpecRoundTrip == RtInit /\ [][RtNext]_vars

TuplesOf(postings) ==
    {<<postings[i].account, postings[i].commodity, postings[i].quantity>> :
        i \in 1..Len(postings)}

\* C2: every valid Transaction written by writeTransaction, parsed and
\* converted back gives exactly one Transaction with the same date, the same
\* description, the same set of (account, commodity, signed quantity) tuples
\* and the same externalId.
C2_RoundTrip ==
    op = "roundTrip" =>
        /\ Len(answer) = 1
        /\ answer[1].kind = "Transaction"
        /\ answer[1].date = txn.date
        /\ answer[1].description = txn.description
        /\ TuplesOf(answer[1].postings) = TuplesOf(txn.postings)
        /\ answer[1].externalId = txn.externalId

(***************************************************************************)
(* FileLedgerRepository over a FileProvider: one repository, one journal.  *)
(***************************************************************************)
Resolved(value) == [kind |-> "resolved", value |-> value]

\* FileLedgerRepository.loadTransactions: the cached array while the version
\* of getHead is the cached one, else what parsing the file gives
Load ==
    IF cachedTransactions # None /\ cacheVersion = mtime
    THEN [ok |-> TRUE, val |-> cachedTransactions[1], hit |-> TRUE]
    ELSE With(loadTransactions(file), LAMBDA parsed :
             [ok |-> parsed.ok, val |-> parsed.val, hit |-> FALSE])

\* the cache fields after loadTransactions
Cache(loaded) ==
    /\ cachedTransactions' = IF loaded.ok THEN Some(loaded.val) ELSE cachedTransactions
    /\ cacheVersion' = IF loaded.ok /\ ~loaded.hit THEN mtime ELSE cacheVersion

\* date.toISOString().split('T')[0]
isoDay(date) ==
    toString(date \div 10000) \o S("-") \o padStart2((date \div 100) % 100)
        \o S("-") \o padStart2(date % 100)

\* the ids appendTransactions hands out; `now` is Date.now()
newTransactions(transactions, now) ==
    [idx \in 1..Len(transactions) |->
        LET t == transactions[idx]
        IN IF t.id # <<>> /\ ~Includes(t.id, "-") THEN t
           ELSE withId(t, isoDay(t.date) \o S("-") \o toString(idx - 1)
                              \o S("-") \o toString(now))]

\* the stamps FileProvider.write can leave: the clock does not run backwards
Stamps == {IF mtime = 0 THEN 1 ELSE mtime, mtime + 1}

RepoDescriptions == {S("Tea"), S("Rent:")}
RepoExternalIds == {S("x1"), S("x2")}
RepoTransactions ==
    {NewTransaction([id |-> None, date |-> Date0, description |-> d,
                     postings |-> <<Posting(S("A"), -1, S("$")), Posting(S("B"), 1, S("$"))>>,
                     comment |-> None, externalId |-> x, skipValidation |-> FALSE]) :
        d \in RepoDescriptions, x \in {None} \cup {Some(i) : i \in RepoExternalIds}}

RepoInit ==
    /\ file = <<>> /\ mtime = 0
    /\ cachedTransactions = None /\ cacheVersion = 0
    /\ nodeArg = <<>> /\ arg = <<>> /\ answer = <<>> /\ appended = <<>> /\ calls = <<>>
    /\ op = "init"
    /\ DomIdle /\ MatchIdle /\ CalcIdle /\ ParseIdle /\ PriceIdle

AppendTransactions ==
    \E t \in RepoTransactions, stamp \in Stamps :
        /\ Len(appended) < MaxAppends
        /\ file' = appendToJournal(file, newTransactions(<<t>>, stamp), <<>>)
        /\ mtime' = stamp
        /\ cachedTransactions' = None
        /\ answer' = Resolved(newTransactions(<<t>>, stamp))
        /\ appended' = Append(appended, t)
        /\ arg' = <<t>>
        /\ op' = "appendTransactions"
        /\ UNCHANGED <<parseVars, priceVars, cacheVersion, nodeArg, calls, domVars, matchVars, calcVars>>

ExistsExternalId ==
    \E externalId \in RepoExternalIds :
        /\ \E transactions \in {Load} :
              /\ Cache(transactions)
              /\ answer' = IF transactions.ok
                           THEN Resolved(\E i \in 1..Len(transactions.val) :
                                             transactions.val[i].externalId = Some(externalId))
                           ELSE transactions.val
        /\ arg' = externalId
        /\ op' = "existsExternalId"
        /\ UNCHANGED <<parseVars, priceVars, fileVars, nodeArg, appended, calls, domVars, matchVars, calcVars>>

ListTransactions ==
    /\ \E transactions \in {Load} :
          /\ Cache(transactions)
          /\ answer' = IF transactions.ok THEN Resolved(transactions.val) ELSE transactions.val
    /\ op' = "listTransactions"
    /\ UNCHANGED <<parseVars, priceVars, fileVars, nodeArg, arg, appended, calls, domVars, matchVars, calcVars>>

RepoNext == AppendTransactions \/ ExistsExternalId \/ ListTransactions

SpecRepo == RepoInit /\ [][RepoNext]_vars

\* C5: on a journal built only by appendTransactions on an empty file,
\* existsExternalId(X) returns true exactly when some appended transaction
\* had externalId X.
C5_ExistsExternalId ==
    op = "existsExternalId" =>
        /\ answer.kind = "resolved"
        /\ answer.value = (\E i \in 1..Len(appended) : appended[i].externalId = Some(arg))

(***************************************************************************)
(* Loading a journal written by hand: each entry is its text and, when its *)
(* conversion is to succeed, the transaction it states.                    *)
(***************************************************************************)
Stated(description, date, postings) ==
    Some([description |-> description, date |-> date, postings |-> postings])

TypedEntries ==
    {[text |-> S("2024/01/15 Tea\n  A:C  $ 1\n  E:F\n"),
      expect |-> Stated(S("Tea"), 20240115,
                        <<Posting(S("A:C"), 1, S("$")), Posting(S("E:F"), -1, S("$"))>>)],
     [text |-> S("2024/01/20 Pie\n  A:C  ETH 2\n  E:F  ETH -2\n"),
      expect |-> Stated(S("Pie"), 20240120,
                        <<Posting(S("A:C"), 2, S("ETH")), Posting(S("E:F"), -2, S("ETH"))>>)],
     [text |-> S("2024/01/16 Two\n  A:C\n  E:F\n"), expect |-> None],
     [text |-> S("2024/01/17 Off\n  A:C  $ 1\n  E:F  $ 1\n"), expect |-> None],
     [text |-> S("2024/01/18\n  A:C  $ 1\n  E:F\n"), expect |-> None],
     [text |-> S("2024/01/19 One\n  A:C  $ 1\n"), expect |-> None]}

LoadInit ==
    /\ arg \in SeqsUpTo(TypedEntries, MaxEntries)
    /\ file = Join([i \in 1..Len(arg) |-> arg[i].text], S("\n"))
    /\ mtime = IF arg = <<>> THEN 0 ELSE 1
    /\ cachedTransactions = None /\ cacheVersion = 0
    /\ nodeArg = <<>> /\ answer = <<>> /\ appended = <<>> /\ calls = <<>>
    /\ op = "init"
    /\ DomIdle /\ MatchIdle /\ CalcIdle /\ ParseIdle /\ PriceIdle

LoadNext == ListTransactions

SpecLoad == LoadInit /\ [][LoadNext]_vars

\* C10: a TransactionNode whose conversion fails (two elided postings, fewer
\* than 2 postings, blank description, unbalanced commodity) is skipped
\* alone: listTransactions does not fail and returns the transactions of all
\* the other entries of the journal, in textual order.
C10_SkippedAlone ==
    op = "listTransactions" =>
        LET good == SelectSeq(arg, LAMBDA e : e.expect # None)
        IN /\ answer.kind = "resolved"
           /\ Len(answer.value) = Len(good)
           /\ \A i \in 1..Len(good) :
                 /\ answer.value[i].kind = "Transaction"
                 /\ answer.value[i].description = good[i].expect[1].description
                 /\ answer.value[i].date = good[i].expect[1].date
                 /\ answer.value[i].postings = good[i].expect[1].postings

\* a failing entry between two good ones was skipped, the good ones returned
C10_Witness ==
    /\ op = "listTransactions"
    /\ Len(arg) = 3
    /\ arg[1].expect # None /\ arg[2].expect = None /\ arg[3].expect # None
    /\ answer.kind = "resolved"
    /\ Len(answer.value) = 2

(***************************************************************************)
(* Two callers appending to one journal file: appendTransactions of a      *)
(* FileLedgerRepository and upsertPrices of a FilePriceRepository.  Each   *)
(* awaits the read, then awaits the write.                                 *)
(***************************************************************************)
Callers == {1, 2}

ConcTransaction(description) ==
    NewTransaction([id |-> None, date |-> Date0, description |-> description,
                    postings |-> <<Posting(S("A:C"), -1, S("$")), Posting(S("E:F"), 1, S("$"))>>,
                    comment |-> None, externalId |-> None, skipValidation |-> FALSE])
ConcPrice(baseCommodity) ==
    NewPrice(Date0, baseCommodity, S("$"), Dec(2), None)

Call(method, entry) ==
    [pc |-> "read", method |-> method, entry |-> entry, content |-> <<>>]
FirstCalls == {Call("appendTransactions", ConcTransaction(d)) : d \in {S("Tea"), S("Pie")}}
SecondCalls ==
    {Call("appendTransactions", ConcTransaction(d)) : d \in {S("Jam"), S("Ham")}}
    \cup {Call("upsertPrices", ConcPrice(c)) : c \in {S("ETH"), S("BTC")}}

ConcInit ==
    /\ calls \in {<<a, b>> : a \in FirstCalls, b \in SecondCalls}
    /\ file \in {<<>>, appendToJournal(<<>>, <<ConcTransaction(S("Old"))>>, <<>>)}
    /\ mtime = IF file = <<>> THEN 0 ELSE 1
    /\ cachedTransactions = None /\ cacheVersion = 0
    /\ nodeArg = <<>> /\ arg = <<>> /\ answer = <<>> /\ appended = <<>>
    /\ op = "init"
    /\ DomIdle /\ MatchIdle /\ CalcIdle /\ ParseIdle /\ PriceIdle

\* const content = await this.fileProvider.read(this.journalPath)
Read(c) ==
    /\ calls[c].pc = "read"
    /\ calls' = [calls EXCEPT ![c].content = file, ![c].pc = "write"]
    /\ op' = "read"
    /\ UNCHANGED <<parseVars, priceVars, fileVars, cachedTransactions, cacheVersion, nodeArg, arg, answer,
                   appended, domVars, matchVars, calcVars>>

\* await this.fileProvider.write(this.journalPath, newContent)
Write(c) ==
    /\ calls[c].pc = "write"
    /\ file' = IF calls[c].method = "appendTransactions"
               THEN appendToJournal(calls[c].content,
                                    newTransactions(<<calls[c].entry>>, mtime), <<>>)
               ELSE appendToJournal(calls[c].content, <<>>, <<calls[c].entry>>)
    /\ mtime' \in Stamps
    /\ calls' = [calls EXCEPT ![c].pc = "done"]
    /\ appended' = Append(appended, calls[c].entry)
    /\ op' = "write"
    /\ UNCHANGED <<parseVars, priceVars, cachedTransactions, cacheVersion, nodeArg, arg, answer,
                   domVars, matchVars, calcVars>>

ConcNext == \E c \in Callers : Read(c) \/ Write(c)

SpecConc == ConcInit /\ [][ConcNext]_vars

\* the journal holds the entry the call was to append
Holds(text, call) ==
    LET ast == parse(text)
    IN /\ ast.ok
       /\ \E i \in 1..Len(ast.val) :
             IF call.method = "appendTransactions"
             THEN ast.val[i].type = "transaction"
                  /\ ast.val[i].description = call.entry.description
             ELSE ast.val[i].type = "price"
                  /\ ast.val[i].baseCommodity = call.entry.baseCommodity

\* C3: when two appends on the same journal file run concurrently and both
\* complete, the final journal contains the entries of both; no interleaving
\* of their read and write steps loses an append.
C3_NoLostAppend ==
    (\A c \in Callers : calls[c].pc = "done") =>
        \A c \in Callers : Holds(file, calls[c])

(***************************************************************************)
(* Parser.parse on journals of one line under test: a price directive, a   *)
(* posting under a transaction header, a posting without a header, or a    *)
(* line that starts no entry.  The line is a prefix and a tail of          *)
(* fragments, each fragment one lexical shape.                             *)
(***************************************************************************)
MaxTail == 3    \* fragments after the prefix of the line under test

FragmentText(fragment) ==
    CASE fragment = "DATE" -> S(" 2024/01/15")
      [] fragment = "COMMODITY" -> S(" ETH")
      [] fragment = "DOLLAR" -> S(" $")
      [] fragment = "QUOTED" -> S(" \"Q\"")
      [] fragment = "NUMBER" -> S(" 5")
      [] fragment = "NEGATIVE" -> S(" -5")
      [] fragment = "MINUSDOLLAR" -> S(" -$")
      [] fragment = "COMMENT" -> S(" ;c")
      [] fragment = "TEXT" -> S(" %")

Fragments ==
    {"DATE", "COMMODITY", "DOLLAR", "QUOTED", "NUMBER", "NEGATIVE", "MINUSDOLLAR",
     "COMMENT", "TEXT"}

LineKinds == {"P", "Pdate", "posting", "orphan", "unknown"}

LinePrefix(kind) ==
    CASE kind = "P" -> S("P ")
      [] kind = "Pdate" -> S("P 2024/01/15")
      [] kind = "posting" -> S("2024/01/15 Tea\n  A:B")
      [] kind = "orphan" -> S("  A:B")
      [] kind = "unknown" -> S("zz")

RECURSIVE TailText(_)
TailText(tail) == IF tail = <<>> THEN <<>> ELSE FragmentText(Head(tail)) \o TailText(Tail(tail))

LineText(line) == LinePrefix(line.kind) \o TailText(line.tail) \o S("\n")

ParseInputs == {[kind |-> k, tail |-> t] : k \in LineKinds, t \in SeqsUpTo(Fragments, MaxTail)}

ParseInit ==
    /\ op = "init"
    /\ arg \in ParseInputs
    /\ file = LineText(arg)
    /\ mtime = 0
    /\ parser = NewParser
    /\ lexer = <<>>
    /\ answer = <<>>
    /\ cachedTransactions = <<>> /\ cacheVersion = <<>> /\ nodeArg = <<>>
    /\ appended = <<>> /\ calls = <<>>
    /\ DomIdle /\ MatchIdle /\ CalcIdle /\ PriceIdle

\* const ast = parser.parse(content)
Parse ==
    /\ op = "init"
    /\ \E run \in {ParserParse(parser, file)} :
        /\ answer' = run.result
        /\ parser' = run.self
    /\ op' = "parse"
    /\ UNCHANGED <<lexer, arg, fileVars, cachedTransactions, cacheVersion, nodeArg, appended,
                   calls, priceVars, domVars, matchVars, calcVars>>

ParseNext == Parse

SpecParse == ParseInit /\ [][ParseNext]_vars

IsCommodityFragment(fragment) == fragment \in {"COMMODITY", "DOLLAR", "QUOTED"}
IsNumberFragment(fragment) == fragment \in {"NUMBER", "NEGATIVE"}
At(tail, i) == IF i <= Len(tail) THEN tail[i] ELSE "none"

\* what follows "P": the directive lacks its date, its base commodity or its
\* price number (which stands after the base or after a quote commodity)
PriceLacks(tail) ==
    \/ At(tail, 1) # "DATE"
    \/ ~IsCommodityFragment(At(tail, 2))
    \/ /\ ~IsNumberFragment(At(tail, 3))
       /\ ~(IsCommodityFragment(At(tail, 3)) /\ IsNumberFragment(At(tail, 4)))

\* what follows the account of a posting: the amount has started with a MINUS
\* or a commodity and no NUMBER follows
AmountLacksNumber(tail) ==
    /\ IsCommodityFragment(At(tail, 1)) \/ At(tail, 1) = "MINUSDOLLAR"
    /\ ~IsNumberFragment(At(tail, 2))

MustRaise(line) ==
    \/ line.kind = "P" /\ PriceLacks(line.tail)
    \/ line.kind = "Pdate" /\ PriceLacks(<<"DATE">> \o line.tail)
    \/ line.kind = "posting" /\ AmountLacksNumber(line.tail)

IsParseError(result) == ~result.ok /\ result.val.kind = "ParseError"

\* C11: parse returns an AST or raises a ParseError; it raises exactly when a
\* price directive lacks its date, its base commodity or its price number, or
\* when a posting amount that started with a MINUS or a commodity has no
\* NUMBER; a line that starts no entry, and a posting outside a transaction,
\* is skipped and leaves no entry.
C11_OnlyGrammarErrors ==
    op = "parse" =>
        /\ answer.ok \/ IsParseError(answer)
        /\ IsParseError(answer) <=> MustRaise(arg)
        /\ arg.kind \in {"orphan", "unknown"} => answer.ok /\ answer.val = <<>>

C11_Witness ==
    /\ op = "parse"
    /\ arg = [kind |-> "posting", tail |-> <<"MINUSDOLLAR", "COMMENT">>]
    /\ IsParseError(answer)
    /\ answer.val.message = "Expected number"

(***************************************************************************)
(* One Parser object parsing one text after another (the repositories keep *)
(* their Parser in a field), and new Parser objects in between.            *)
(***************************************************************************)
MaxParses == 3  \* calls of parse in one behaviour

ReparseTexts ==
    {S("2024/01/15 Tea\n  A:B  $ 5\n  C:D\n"),
     S("P 2024/01/15 ETH $ 5\n"),
     S("P 2024/01/15 ETH\n"),
     S("2024/01/15 Tea\n  A:B  ETH\n"),
     S("zz\n\n; c\n"),
     <<>>}

ReparseInit ==
    /\ op = "init"
    /\ parser = NewParser
    /\ lexer = <<>>
    /\ file = <<>> /\ mtime = 0
    /\ answer = <<>>
    /\ appended = <<>>
    /\ cachedTransactions = <<>> /\ cacheVersion = <<>> /\ nodeArg = <<>>
    /\ arg = <<>> /\ calls = <<>>
    /\ DomIdle /\ MatchIdle /\ CalcIdle /\ PriceIdle

\* this.parser.parse(content) on the Parser the earlier calls used
ParseAgain ==
    /\ Len(appended) < MaxParses
    /\ \E text \in ReparseTexts :
       \E run \in {ParserParse(parser, text)} :
        /\ file' = text
        /\ answer' = run.result
        /\ parser' = run.self
        /\ appended' = Append(appended, [text |-> text, outcome |-> run.result])
    /\ op' = "parse"
    /\ UNCHANGED <<lexer, mtime, arg, cachedTransactions, cacheVersion, nodeArg, calls,
                   priceVars, domVars, matchVars, calcVars>>

\* new Parser()
FreshParser ==
    /\ parser # NewParser
    /\ parser' = NewParser
    /\ op' = "new"
    /\ UNCHANGED <<lexer, fileVars, arg, answer, appended, cachedTransactions, cacheVersion,
                   nodeArg, calls, priceVars, domVars, matchVars, calcVars>>

ReparseNext == ParseAgain \/ FreshParser

SpecReparse == ReparseInit /\ [][ReparseNext]_vars

\* C12: two calls of parse on the same text give the same outcome (the same
\* entries or the same ParseError), whatever the Parser parsed in between and
\* whether the Parser is new or used.
C12_Deterministic ==
    \A i, j \in DOMAIN appended :
        appended[i].text = appended[j].text => appended[i].outcome = appended[j].outcome

\* a used Parser that last raised a ParseError parses a good journal as a new
\* Parser did before
C12_Witness ==
    /\ Len(appended) = 3
    /\ appended[1].text = appended[3].text
    /\ appended[1].outcome.ok /\ appended[1].outcome.val # <<>>
    /\ ~appended[2].outcome.ok
    /\ op = "parse"

(***************************************************************************)
(* Lexer.tokenize step by step: one action per round of its loop and one   *)
(* for the EOF token pushed after the loop.  The texts are concatenations  *)
(* of fragments that between them take every branch of scanToken.          *)
(***************************************************************************)
MaxFragments == 3   \* fragments of one lexer input

LexFragments ==
    {S("\n"), S("\r"), S(" "), S(";"), S("P "), S("2024/0"), S("1/15"), S("-"), S("$"),
     S("\""), S("a:"), S("%"), S("7.")}

RECURSIVE Flatten(_)
Flatten(parts) == IF parts = <<>> THEN <<>> ELSE Head(parts) \o Flatten(Tail(parts))

LexInputs == {Flatten(parts) : parts \in SeqsUpTo(LexFragments, MaxFragments)}

\* the fields of the Lexer as tokenize resets them; scans counts the calls of
\* scanToken
NewLexer == [pos |-> 0, line |-> 1, column |-> 1, tokens |-> <<>>, scans |-> 0]

LexInit ==
    /\ op = "init"
    /\ file \in LexInputs
    /\ mtime = 0
    /\ lexer = NewLexer
    /\ parser = <<>>
    /\ answer = <<>>
    /\ cachedTransactions = <<>> /\ cacheVersion = <<>> /\ nodeArg = <<>>
    /\ arg = <<>> /\ appended = <<>> /\ calls = <<>>
    /\ DomIdle /\ MatchIdle /\ CalcIdle /\ PriceIdle

\* one round of `while (this.pos < this.input.length) this.scanToken()`; the
\* count of rounds is capped at one more than a lexer that advances can take
ScanToken ==
    /\ op \in {"init", "scanToken"}
    /\ lexer.pos < Len(file)
    /\ lexer.scans <= Len(file)
    /\ \E scanned \in {scanToken(file, lexer)} :
        lexer' = [scanned EXCEPT !.scans = lexer.scans + 1]
    /\ op' = "scanToken"
    /\ UNCHANGED <<parser, fileVars, repoVars, priceVars, domVars, matchVars, calcVars>>

\* the EOF token pushed after the loop, and the return
PushEof ==
    /\ op \in {"init", "scanToken"}
    /\ ~(lexer.pos < Len(file))
    /\ \E tokens \in {Append(lexer.tokens, [type |-> "EOF", value |-> <<>>,
                                            line |-> lexer.line, column |-> lexer.column])} :
        /\ lexer' = [lexer EXCEPT !.tokens = tokens]
        /\ answer' = tokens
    /\ op' = "tokenize"
    /\ UNCHANGED <<parser, fileVars, cachedTransactions, cacheVersion, nodeArg, arg, appended,
                   calls, priceVars, domVars, matchVars, calcVars>>

LexNext == ScanToken \/ PushEof

SpecLex == LexInit /\ [][LexNext]_vars /\ WF_vars(LexNext)

EofLastOnly(tokens) ==
    /\ tokens # <<>>
    /\ \A i \in DOMAIN tokens : tokens[i].type = "EOF" <=> i = Len(tokens)

\* C13: every scanToken step moves the cursor forward by at least one
\* character and never past the end of the input; tokenize comes to its end,
\* and what it returns ends with an EOF token and holds no other EOF token.
C13_Terminates ==
    /\ [][op' = "scanToken" => lexer'.pos > lexer.pos /\ lexer'.pos <= Len(file)]_vars
    /\ [](op = "tokenize" => EofLastOnly(answer) /\ answer = tokenize(file))
    /\ <>(op = "tokenize")

\* tokenize is over after a carriage return was skipped, a date was refused
\* and the rest of the line became a TEXT token
C13_Witness ==
    /\ op = "tokenize"
    /\ file = S("\r") \o S("2024/0") \o S("%")
    /\ \E i \in DOMAIN answer : answer[i].type = "TEXT"
    /\ \E i \in DOMAIN answer : answer[i].type = "NUMBER"

(***************************************************************************)
(* FilePriceRepository over one journal file: upsertPrices, listPrices and *)
(* getPrice, with the cache of loadPrices.  appended is the history of the *)
(* prices handed to upsertPrices, in call order.                           *)
(***************************************************************************)
MaxUpserts == 2     \* calls of upsertPrices in one behaviour

PricePairs == {<<S("ETH"), S("$")>>, <<S("$"), S("ETH")>>}
PriceDates == {Date0, Date0 + 1}
PriceRates == {2, 5}
AsOfDates == {Date0 - 1, Date0, Date0 + 1}
UpsertedPrices ==
    {NewPrice(d, pair[1], pair[2], Dec(r), None) :
        d \in PriceDates, pair \in PricePairs, r \in PriceRates}
PriceFilters ==
    {None,
     Some([baseCommodity |-> Some(S("ETH")), quoteCommodity |-> None,
           fromDate |-> None, toDate |-> Some(Date0)])}

PriceInit ==
    /\ op = "init"
    /\ file = <<>> /\ mtime = 0
    /\ cachedPrices = None /\ priceCacheVersion = 0
    /\ arg = <<>> /\ answer = <<>> /\ appended = <<>>
    /\ cachedTransactions = <<>> /\ cacheVersion = <<>> /\ nodeArg = <<>> /\ calls = <<>>
    /\ DomIdle /\ MatchIdle /\ CalcIdle /\ ParseIdle

\* FilePriceRepository.loadPrices: the cached array while the version of the
\* file is the cached one, else what parsing the file gives
LoadPrices ==
    IF cachedPrices # None /\ priceCacheVersion = mtime
    THEN [ok |-> TRUE, val |-> cachedPrices[1], hit |-> TRUE]
    ELSE With(loadPrices(file), LAMBDA parsed :
             [ok |-> parsed.ok, val |-> parsed.val, hit |-> FALSE])

\* the cache fields after loadPrices
CachePrices(loaded) ==
    /\ cachedPrices' = IF loaded.ok THEN Some(loaded.val) ELSE cachedPrices
    /\ priceCacheVersion' = IF loaded.ok /\ ~loaded.hit THEN mtime ELSE priceCacheVersion

UpsertPrices ==
    \E price \in UpsertedPrices, stamp \in Stamps :
        /\ Len(appended) < MaxUpserts
        /\ file' = appendToJournal(file, <<>>, <<price>>)
        /\ mtime' = stamp
        /\ cachedPrices' = None
        /\ answer' = Resolved(<<>>)
        /\ appended' = Append(appended, price)
        /\ arg' = <<price>>
        /\ op' = "upsertPrices"
        /\ UNCHANGED <<priceCacheVersion, cachedTransactions, cacheVersion, nodeArg, calls,
                       parseVars, domVars, matchVars, calcVars>>

ListPrices ==
    \E filter \in PriceFilters, loaded \in {LoadPrices} :
        /\ CachePrices(loaded)
        /\ answer' = IF loaded.ok THEN Resolved(listPrices(loaded.val, filter))
                     ELSE [kind |-> "rejected", value |-> loaded.val]
        /\ arg' = filter
        /\ op' = "listPrices"
        /\ UNCHANGED <<fileVars, appended, cachedTransactions, cacheVersion, nodeArg, calls,
                       parseVars, domVars, matchVars, calcVars>>

GetPrice ==
    \E pair \in PricePairs, asOfDate \in AsOfDates, loaded \in {LoadPrices} :
        /\ CachePrices(loaded)
        /\ answer' = IF loaded.ok
                     THEN Resolved(getPrice(loaded.val, pair[1], pair[2], asOfDate))
                     ELSE [kind |-> "rejected", value |-> loaded.val]
        /\ arg' = [baseCommodity |-> pair[1], quoteCommodity |-> pair[2],
                   asOfDate |-> asOfDate]
        /\ op' = "getPrice"
        /\ UNCHANGED <<fileVars, appended, cachedTransactions, cacheVersion, nodeArg, calls,
                       parseVars, domVars, matchVars, calcVars>>

PriceNext == UpsertPrices \/ ListPrices \/ GetPrice

SpecPrice == PriceInit /\ [][PriceNext]_vars

PriceKey(price) == <<price.date, price.baseCommodity, price.quoteCommodity>>

\* C14: what listPrices returns holds at most one price per date and
\* commodity pair, and unfiltered it holds, for every pair and date that was
\* upserted, the price of the last upsert of that pair and date.
C14_UpsertReplaces ==
    op = "listPrices" =>
        /\ answer.kind = "resolved"
        /\ \A i, j \in DOMAIN answer.value :
               i # j => PriceKey(answer.value[i]) # PriceKey(answer.value[j])
        /\ arg = None =>
               \A k \in DOMAIN appended :
                   (\A l \in DOMAIN appended :
                        l > k => PriceKey(appended[l]) # PriceKey(appended[k]))
                   => \E i \in DOMAIN answer.value : answer.value[i] = appended[k]

\* the stored prices for a pair on or before a date, as positions in the
\* history, and the position of the latest of them (the last one of its date)
StoredAt(baseCommodity, quoteCommodity, asOfDate) ==
    {k \in DOMAIN appended :
        /\ appended[k].baseCommodity = baseCommodity
        /\ appended[k].quoteCommodity = quoteCommodity
        /\ appended[k].date <= asOfDate}

LatestAt(positions) ==
    CHOOSE k \in positions :
        \A l \in positions :
            \/ appended[l].date < appended[k].date
            \/ appended[l].date = appended[k].date /\ l <= k

MaxPrices == 2      \* prices handed to convertBalance

\* prices.find(p => p.baseCommodity === base && p.quoteCommodity === quote):
\* the position of the first such price, 0 when there is none
FindIndex(prices, baseCommodity, quoteCommodity) ==
    LET found == {i \in DOMAIN prices :
                     /\ prices[i].baseCommodity = baseCommodity
                     /\ prices[i].quoteCommodity = quoteCommodity}
    IN IF found = {} THEN 0 ELSE CHOOSE i \in found : \A j \in found : i <= j

\* findPrice that hands out the price of the opposite pair as it is stored
findPrice_AsStored(prices, baseCommodity, quoteCommodity) ==
    IF FindIndex(prices, baseCommodity, quoteCommodity) # 0
    THEN Some(prices[FindIndex(prices, baseCommodity, quoteCommodity)])
    ELSE IF FindIndex(prices, quoteCommodity, baseCommodity) # 0
    THEN Some(prices[FindIndex(prices, quoteCommodity, baseCommodity)])
    ELSE None

\* BalanceCalculator.findPrice: Some(Price), or None for null
findPrice(prices, baseCommodity, quoteCommodity) ==
    LET direct == FindIndex(prices, baseCommodity, quoteCommodity)
        inverse == FindIndex(prices, quoteCommodity, baseCommodity)
    IN IF direct # 0 THEN Some(prices[direct])
       ELSE IF inverse # 0 THEN Some(invert(prices[inverse]))
       ELSE None

\* the loop of convertBalance over the entries of balance.positions
RECURSIVE ConvertLoop(_, _, _, _)
ConvertLoop(positions, targetCommodity, prices, total) ==
    IF positions = <<>> THEN total
    ELSE LET commodity == Head(positions).k
             quantity == Dec(Head(positions).v)
             price == findPrice(prices, commodity, targetCommodity)
         IN ConvertLoop(Tail(positions), targetCommodity, prices,
                        IF commodity = targetCommodity THEN plus(total, quantity)
                        ELSE IF price # None THEN plus(total, convert(price[1], quantity))
                        ELSE total)

\* BalanceCalculator.convertBalance: the Money it returns
convertBalance(balance, targetCommodity, prices) ==
    [quantity |-> ConvertLoop(balance.positions, targetCommodity, prices, Dec(0)),
     commodity |-> targetCommodity]

ConvertCommodities == {S("$"), S("ETH"), S("BTC")}
ConvertTargets == {S("$"), S("ETH")}
ConvertQuantities == {-1, 3}
ConvertPrices ==
    {NewPrice(Date0, pair[1], pair[2], Dec(r), None) :
        pair \in {<<S("ETH"), S("$")>>, <<S("$"), S("ETH")>>,
                  <<S("BTC"), S("$")>>, <<S("BTC"), S("ETH")>>},
        r \in PriceRates}
\* the Maps over some of the commodities, in every insertion order
ConvertPositions ==
    {m \in SeqsUpTo([k : ConvertCommodities, v : ConvertQuantities],
                    Cardinality(ConvertCommodities)) :
        \A i, j \in DOMAIN m : i # j => m[i].k # m[j].k}

ConvertInit ==
    /\ op = "init"
    /\ arg \in [balance : {[account |-> S("Assets"), positions |-> m] : m \in ConvertPositions},
                targetCommodity : ConvertTargets,
                prices : SeqsUpTo(ConvertPrices, MaxPrices)]
    /\ answer = <<>>
    /\ cachedTransactions = <<>> /\ cacheVersion = <<>> /\ nodeArg = <<>>
    /\ appended = <<>> /\ calls = <<>>
    /\ DomIdle /\ MatchIdle /\ CalcIdle /\ FileIdle /\ ParseIdle /\ PriceIdle

\* LedgerService.getBalanceInCommodity: this.calculator.convertBalance(...)
ConvertBalance ==
    /\ op = "init"
    /\ answer' = convertBalance(arg.balance, arg.targetCommodity, arg.prices)
    /\ op' = "convertBalance"
    /\ UNCHANGED <<arg, cachedTransactions, cacheVersion, nodeArg, appended, calls,
                   fileVars, parseVars, priceVars, domVars, matchVars, calcVars>>

ConvertNext == ConvertBalance

SpecConvert == ConvertInit /\ [][ConvertNext]_vars

\* what one position adds to the total
Contribution(position, targetCommodity, prices) ==
    LET direct == {i \in DOMAIN prices :
                      /\ prices[i].baseCommodity = position.k
                      /\ prices[i].quoteCommodity = targetCommodity}
        inverse == {i \in DOMAIN prices :
                       /\ prices[i].baseCommodity = targetCommodity
                       /\ prices[i].quoteCommodity = position.k}
        First(found) == CHOOSE i \in found : \A j \in found : i <= j
    IN IF position.k = targetCommodity THEN Dec(position.v)
       ELSE IF direct # {}
       THEN Fraction(position.v * prices[First(direct)].price.num,
                     prices[First(direct)].price.den)
       ELSE IF inverse # {}
       THEN Fraction(position.v * prices[First(inverse)].price.den,
                     prices[First(inverse)].price.num)
       ELSE Dec(0)

RECURSIVE SumOfContributions(_, _, _)
SumOfContributions(positions, targetCommodity, prices) ==
    IF positions = <<>> THEN Dec(0)
    ELSE plus(Contribution(Head(positions), targetCommodity, prices),
              SumOfContributions(Tail(positions), targetCommodity, prices))

HasPrice(prices, baseCommodity, quoteCommodity) ==
    \E i \in DOMAIN prices :
        prices[i].baseCommodity = baseCommodity /\ prices[i].quoteCommodity = quoteCommodity

\* C16: convertBalance returns a Money in the target commodity whose quantity
\* is the sum over the balance's commodities of the quantity itself (target),
\* the quantity times the rate of the first direct price, else the quantity
\* times the reciprocal rate of the first price of the opposite pair, else
\* nothing.
C16_ConvertBalance ==
    op = "convertBalance" =>
        /\ answer.commodity = arg.targetCommodity
        /\ answer.quantity =
               SumOfContributions(arg.balance.positions, arg.targetCommodity, arg.prices)

\* a balance of three commodities: the target, one that only the opposite
\* pair prices (twice, at different rates), and one without any price
C16_Witness ==
    /\ op = "convertBalance"
    /\ Len(arg.balance.positions) = 3
    /\ Len(arg.prices) = 2
    /\ arg.prices[1].price # arg.prices[2].price
    /\ \E i \in DOMAIN arg.balance.positions :
           LET c == arg.balance.positions[i].k
           IN /\ c # arg.targetCommodity
              /\ ~HasPrice(arg.prices, c, arg.targetCommodity)
              /\ HasPrice(<<arg.prices[1]>>, arg.targetCommodity, c)
              /\ HasPrice(<<arg.prices[2]>>, arg.targetCommodity, c)
    /\ \E i \in DOMAIN arg.balance.positions :
           LET c == arg.balance.positions[i].k
           IN /\ c # arg.targetCommodity
              /\ ~HasPrice(arg.prices, c, arg.targetCommodity)
              /\ ~HasPrice(arg.prices, arg.targetCommodity, c)
    /\ answer.quantity.den # 1

(***************************************************************************)
(* A journal text that grows by appendToJournal.  appended is the history  *)
(* of the journal's earlier texts.                                         *)
(***************************************************************************)
ExistingTexts ==
    {<<>>, S(" \n"), S("; c"), S("; c\n\n\n"), S("  ; c \t\r\n"),
     S("2024/01/14 Old\n  A:C  $ 1\n  E:F\n")}
AppendedTransactions == {<<>>, <<ConcTransaction(S("Tea"))>>}
AppendedPrices == {<<>>, <<ConcPrice(S("ETH"))>>}

AppendInit ==
    /\ op = "init"
    /\ file \in ExistingTexts
    /\ mtime = 0
    /\ arg = <<>> /\ answer = <<>> /\ appended = <<>>
    /\ cachedTransactions = <<>> /\ cacheVersion = <<>> /\ nodeArg = <<>> /\ calls = <<>>
    /\ DomIdle /\ MatchIdle /\ CalcIdle /\ ParseIdle /\ PriceIdle

\* newContent = this.writer.appendToJournal(content, transactions, prices),
\* written back to the journal
AppendToJournal ==
    \E transactions \in AppendedTransactions, prices \in AppendedPrices :
        /\ Len(appended) < MaxAppends
        /\ file' = appendToJournal(file, transactions, prices)
        /\ appended' = Append(appended, file)
        /\ arg' = [transactions |-> transactions, prices |-> prices]
        /\ op' = "appendToJournal"
        /\ UNCHANGED <<mtime, answer, cachedTransactions, cacheVersion, nodeArg, calls,
                       parseVars, priceVars, domVars, matchVars, calcVars>>

AppendNext == AppendToJournal

SpecAppend == AppendInit /\ [][AppendNext]_vars

\* the text up to its last character that is no whitespace
Kept(text) ==
    LET inked == {i \in DOMAIN text : text[i] \notin Whitespace}
    IN IF inked = {} THEN <<>>
       ELSE SubSeq(text, 1, CHOOSE i \in inked : \A j \in inked : j <= i)

\* C17: the text after an append is the text before it up to its last
\* non-whitespace character, then (when that is not empty) one line end and
\* one empty line, then the rendering of the new entries, which does not
\* start with whitespace; and every earlier text of the journal, up to its
\* last non-whitespace character, is a prefix of the journal.
C17_AppendOnly ==
    op = "appendToJournal" =>
        LET before == appended[Len(appended)]
            block == writeEntries(arg.transactions, arg.prices)
        IN /\ file = Kept(before) \o (IF Kept(before) # <<>> THEN S("\n\n") ELSE <<>>) \o block
           /\ block # <<>> => block[1] \notin Whitespace
           /\ \A k \in DOMAIN appended : IsPrefixSeq(Kept(appended[k]), file)

\* a second append to a journal that started with text in trailing whitespace
C17_Witness ==
    /\ op = "appendToJournal"
    /\ Len(appended) = 2
    /\ appended[1] = S("  ; c \t\r\n")
    /\ appended[2] # appended[1]
    /\ arg.prices # <<>>
    /\ Len(file) > Len(appended[2])

(***************************************************************************)
(* JournalWriter.writeEntries and appendToJournal on transactions and      *)
(* prices of two dates.                                                    *)
(***************************************************************************)
MaxWritten == 2     \* transactions, and prices, handed to one call

WrittenTransactions ==
    {NewTransaction([id |-> None, date |-> d, description |-> description,
                     postings |-> <<Posting(S("A:C"), -1, S("$")), Posting(S("E:F"), 1, S("$"))>>,
                     comment |-> None, externalId |-> None, skipValidation |-> FALSE]) :
        d \in PriceDates, description \in {S("Tea"), S("Pie")}}
WrittenPrices ==
    {NewPrice(d, S("ETH"), S("$"), Dec(r), None) : d \in PriceDates, r \in PriceRates}

WriteInit ==
    /\ op = "init"
    /\ arg \in [transactions : SeqsUpTo(WrittenTransactions, MaxWritten),
                prices : SeqsUpTo(WrittenPrices, MaxWritten)]
    /\ file = S("; c\n")
    /\ mtime = 0
    /\ answer = <<>> /\ appended = <<>>
    /\ cachedTransactions = <<>> /\ cacheVersion = <<>> /\ nodeArg = <<>> /\ calls = <<>>
    /\ DomIdle /\ MatchIdle /\ CalcIdle /\ ParseIdle /\ PriceIdle

WriteEntries ==
    /\ op = "init"
    /\ answer' = writeEntries(arg.transactions, arg.prices)
    /\ op' = "writeEntries"
    /\ UNCHANGED <<arg, fileVars, appended, cachedTransactions, cacheVersion, nodeArg, calls,
                   parseVars, priceVars, domVars, matchVars, calcVars>>

AppendEntries ==
    /\ op = "init"
    /\ answer' = appendToJournal(file, arg.transactions, arg.prices)
    /\ op' = "appendToJournal"
    /\ UNCHANGED <<arg, fileVars, appended, cachedTransactions, cacheVersion, nodeArg, calls,
                   parseVars, priceVars, domVars, matchVars, calcVars>>

WriteNext == WriteEntries \/ AppendEntries

SpecWrite == WriteInit /\ [][WriteNext]_vars

\* the entries handed in, the transactions before the prices
HandedIn(call) ==
    [i \in 1..Len(call.transactions) |-> [date |-> call.transactions[i].date,
                                          text |-> writeTransaction(call.transactions[i])]]
    \o [i \in 1..Len(call.prices) |-> [date |-> call.prices[i].date,
                                       text |-> writePrice(call.prices[i])]]

\* the place in the block of the i-th entry handed in: after the entries of
\* earlier dates and the entries of its own date handed in before it
PlaceOf(entries, i) ==
    1 + Cardinality({j \in DOMAIN entries :
                        \/ entries[j].date < entries[i].date
                        \/ entries[j].date = entries[i].date /\ j < i})

InOrder(entries) ==
    [place \in 1..Len(entries) |->
        entries[CHOOSE i \in DOMAIN entries : PlaceOf(entries, i) = place]]

RECURSIVE BlockOf(_)
BlockOf(entries) ==
    IF entries = <<>> THEN <<>>
    ELSE Head(entries).text \o S("\n")
         \o (IF Tail(entries) = <<>> THEN <<>> ELSE S("\n") \o BlockOf(Tail(entries)))

\* C18: the block rendered for the new entries holds them by non-decreasing
\* date, the entries of one date in the order they were handed in, its
\* transactions before its prices.
C18_DateOrder ==
    /\ op = "writeEntries" => answer = BlockOf(InOrder(HandedIn(arg)))
    /\ op = "appendToJournal" => answer = S("; c\n\n") \o BlockOf(InOrder(HandedIn(arg)))

\* two prices and two transactions, a price of the earlier date handed in
\* after one of the later date, and two transactions of one date
C18_Witness ==
    /\ op = "writeEntries"
    /\ Len(arg.transactions) = 2 /\ Len(arg.prices) = 2
    /\ arg.transactions[1].date = arg.transactions[2].date
    /\ arg.transactions[1] # arg.transactions[2]
    /\ arg.prices[1].date > arg.prices[2].date
    /\ arg.prices[2].date = arg.transactions[1].date

(***************************************************************************)
(* listTransactions({accountPattern}) of the file adapter and of the       *)
(* Postgres adapter over one stored transaction; arg is the full names of  *)
(* the accounts of its postings.                                           *)
(***************************************************************************)
\* str.replace(/\*\*/g, '%')
RECURSIVE ReplaceStarStar(_)
ReplaceStarStar(str) ==
    IF str = <<>> THEN <<>>
    ELSE IF Len(str) >= 2 /\ str[1] = "*" /\ str[2] = "*"
    THEN <<"%">> \o ReplaceStarStar(SubSeq(str, 3, Len(str)))
    ELSE <<Head(str)>> \o ReplaceStarStar(Tail(str))

\* str.replace(/\*/g, '%')
ReplaceStar(str) == [i \in 1..Len(str) |-> IF str[i] = "*" THEN "%" ELSE str[i]]

\* PostgresLedgerRepository.patternToLike
patternToLike(pattern) == ReplaceStar(ReplaceStarStar(pattern))

\* SQL `str LIKE like`: '%' stands for any run of characters, '_' for any one
RECURSIVE Like(_, _)
Like(str, like) ==
    IF like = <<>> THEN str = <<>>
    ELSE IF Head(like) = "%"
    THEN \E k \in 0..Len(str) : Like(SubSeq(str, k + 1, Len(str)), Tail(like))
    ELSE /\ str # <<>>
         /\ Head(like) = "_" \/ Head(like) = Head(str)
         /\ Like(Tail(str), Tail(like))

PatternInit ==
    /\ op = "init"
    /\ \E segs \in SeqsFrom1(SegmentNames, MaxSegments) :
           /\ accountName = Join(segs, S(":"))
           /\ arg = <<Join(segs, S(":")), S("Equity:Opening")>>
    /\ \E pats \in SeqsFrom1(PatternSegments, MaxPatternLen) : patternArg = Join(pats, S(":"))
    /\ matched = FALSE
    /\ answer = <<>>
    /\ cachedTransactions = <<>> /\ cacheVersion = <<>> /\ nodeArg = <<>>
    /\ appended = <<>> /\ calls = <<>>
    /\ DomIdle /\ CalcIdle /\ FileIdle /\ ParseIdle /\ PriceIdle

\* FileLedgerRepository.listTransactions({accountPattern}): whether the
\* filter keeps the stored transaction
FileListTransactions ==
    /\ op = "init"
    /\ matched' = \E i \in DOMAIN arg : matchesPattern(arg[i], patternArg)
    /\ op' = "FileLedgerRepository.listTransactions"
    /\ UNCHANGED <<accountName, patternArg, repoVars, fileVars, parseVars, priceVars,
                   domVars, calcVars>>

\* PostgresLedgerRepository.listTransactions({accountPattern}): whether the
\* EXISTS (... a.full_name LIKE $n) clause selects the stored transaction
PostgresListTransactions ==
    /\ op = "init"
    /\ matched' = \E i \in DOMAIN arg : Like(arg[i], patternToLike(patternArg))
    /\ op' = "PostgresLedgerRepository.listTransactions"
    /\ UNCHANGED <<accountName, patternArg, repoVars, fileVars, parseVars, priceVars,
                   domVars, calcVars>>

PatternNext == FileListTransactions \/ PostgresListTransactions

SpecPattern == PatternInit /\ [][PatternNext]_vars

\* C19: each adapter's listTransactions({accountPattern}) returns the stored
\* transaction exactly when the account of one of its postings satisfies
\* Account.matchesPattern(pattern).
C19_SamePatternSemantics ==
    op # "init" => matched = \E i \in DOMAIN arg : matchesPattern(arg[i], patternArg)

(***************************************************************************)
(* new Account(props) on names of up to MaxSegments segments, blank ones   *)
(* among them, with and without a kind.                                    *)
(***************************************************************************)
\* KIND_PREFIXES[topLevel] ?? 'asset'
inferKind(segments) ==
    CASE segments[1] = S("Assets") -> "asset"
      [] segments[1] = S("Liabilities") -> "liability"
      [] segments[1] = S("Equity") -> "equity"
      [] segments[1] = S("Income") -> "income"
      [] segments[1] \in {S("Expenses"), S("Expense")} -> "expense"
      [] OTHER -> "asset"

\* the Account constructor: the Account, or the error it throws
NewAccount(p) ==
    IF p.name = <<>> \/ Trim(p.name) = <<>>
    THEN JsError("Account name cannot be empty")
    ELSE [kind |-> "Account", name |-> p.name, segments |-> Split(p.name, ":"),
          accountKind |-> IF p.kind # None THEN p.kind[1]
                          ELSE inferKind(Split(p.name, ":"))]

AccountSegments == {<<>>, S(" "), S(" \t"), S("Income"), S("A")}
AccountProps ==
    {[name |-> Join(segs, S(":")), kind |-> k] :
        segs \in SeqsFrom1(AccountSegments, MaxSegments), k \in {None, Some("expense")}}

AccountInit ==
    /\ op = "init"
    /\ arg \in AccountProps
    /\ answer = <<>>
    /\ cachedTransactions = <<>> /\ cacheVersion = <<>> /\ nodeArg = <<>>
    /\ appended = <<>> /\ calls = <<>>
    /\ DomIdle /\ MatchIdle /\ CalcIdle /\ FileIdle /\ ParseIdle /\ PriceIdle

\* new Account(arg)
ConstructAccount ==
    /\ op = "init"
    /\ answer' = NewAccount(arg)
    /\ op' = "new Account"
    /\ UNCHANGED <<arg, cachedTransactions, cacheVersion, nodeArg, appended, calls,
                   fileVars, parseVars, priceVars, domVars, matchVars, calcVars>>

AccountNext == ConstructAccount

SpecAccount == AccountInit /\ [][AccountNext]_vars

\* C20: constructing an Account whose name is empty or only whitespace
\* throws a ValidationError and creates no Account.
C20_BlankNameRejected ==
    op = "new Account" /\ IsBlank(arg.name) => answer.kind = "ValidationError"

(***************************************************************************)
(* Money.add and Money.subtract on two Money objects; arg holds the two    *)
(* operands as they are now, appended as they were constructed.            *)
(***************************************************************************)
MaxMoney == 2   \* the largest magnitude of a Money's quantity

\* new Money({ quantity, commodity })
NewMoney(quantity, commodity) ==
    [kind |-> "Money", quantity |-> quantity, commodity |-> commodity]

\* Money.add that lets a zero amount of another commodity pass
add_ZeroPasses(self, other) ==
    IF self.commodity # other.commodity /\ self.quantity # 0 /\ other.quantity # 0
    THEN JsError("Cannot add different commodities")
    ELSE NewMoney(self.quantity + other.quantity, self.commodity)

\* Money.add: the Money it returns, or the Error it throws
add(self, other) ==
    IF self.commodity # other.commodity
    THEN JsError("Cannot add different commodities")
    ELSE NewMoney(self.quantity + other.quantity, self.commodity)

\* Money.subtract
subtract(self, other) ==
    IF self.commodity # other.commodity
    THEN JsError("Cannot subtract different commodities")
    ELSE NewMoney(self.quantity - other.quantity, self.commodity)

Monies ==
    {NewMoney(q, c) : q \in (0 - MaxMoney)..MaxMoney, c \in {S("$"), S("ETH"), S("EUR")}}

MoneyInit ==
    /\ op = "init"
    /\ arg \in Monies \X Monies
    /\ appended = arg
    /\ answer = <<>>
    /\ cachedTransactions = <<>> /\ cacheVersion = <<>> /\ nodeArg = <<>> /\ calls = <<>>
    /\ DomIdle /\ MatchIdle /\ CalcIdle /\ FileIdle /\ ParseIdle /\ PriceIdle

\* arg[1].add(arg[2]): both fields of both operands are readonly
MoneyAdd ==
    /\ op = "init"
    /\ answer' = add(arg[1], arg[2])
    /\ op' = "add"
    /\ UNCHANGED <<arg, appended, cachedTransactions, cacheVersion, nodeArg, calls,
                   fileVars, parseVars, priceVars, domVars, matchVars, calcVars>>

\* arg[1].subtract(arg[2])
MoneySubtract ==
    /\ op = "init"
    /\ answer' = subtract(arg[1], arg[2])
    /\ op' = "subtract"
    /\ UNCHANGED <<arg, appended, cachedTransactions, cacheVersion, nodeArg, calls,
                   fileVars, parseVars, priceVars, domVars, matchVars, calcVars>>

MoneyNext == MoneyAdd \/ MoneySubtract

SpecMoney == MoneyInit /\ [][MoneyNext]_vars

\* C21: add and subtract of two Money objects of different commodities throw
\* an Error, whatever the quantities; of one commodity they return a Money of
\* that commodity with the sum, or the difference; the operands stay as they
\* were.
C21_MoneyArithmetic ==
    op \in {"add", "subtract"} =>
        /\ arg = appended
        /\ arg[1].commodity # arg[2].commodity => answer.kind = "Error"
        /\ arg[1].commodity = arg[2].commodity =>
               /\ answer.commodity = arg[1].commodity
               /\ op = "add" => answer.quantity = arg[1].quantity + arg[2].quantity
               /\ op = "subtract" => answer.quantity = arg[1].quantity - arg[2].quantity

\* a zero amount of another commodity is added and refused
C21_Witness ==
    /\ op = "add"
    /\ arg[1].quantity = 0 /\ arg[2].quantity # 0
    /\ arg[1].commodity # arg[2].commodity
    /\ answer.kind = "Error"

(***************************************************************************)
(* Parser.parse on one transaction header followed by lines of five kinds: *)
(* two posting lines, an indented comment, an empty line and a comment at  *)
(* the start of the line.                                                  *)
(***************************************************************************)
MaxLines == 3   \* lines after the transaction header

FollowingLines == {"postingAB", "postingCD", "indentedComment", "empty", "comment"}

FollowingText(line) ==
    CASE line = "postingAB" -> S("  A:B  $ 5")
      [] line = "postingCD" -> S("  C:D  $ -5")
      [] line = "indentedComment" -> S("  ; c")
      [] line = "empty" -> <<>>
      [] line = "comment" -> S("; c")

RECURSIVE LinesText(_)
LinesText(lines) ==
    IF lines = <<>> THEN <<>>
    ELSE FollowingText(Head(lines)) \o S("\n") \o LinesText(Tail(lines))

PostingsInit ==
    /\ op = "init"
    /\ arg \in SeqsUpTo(FollowingLines, MaxLines)
    /\ file = S("2024/01/15 Tea\n") \o LinesText(arg)
    /\ mtime = 0
    /\ parser = NewParser
    /\ lexer = <<>>
    /\ answer = <<>>
    /\ cachedTransactions = <<>> /\ cacheVersion = <<>> /\ nodeArg = <<>>
    /\ appended = <<>> /\ calls = <<>>
    /\ DomIdle /\ MatchIdle /\ CalcIdle /\ PriceIdle

SpecPostings == PostingsInit /\ [][ParseNext]_vars

StartsWithIndent(line) == line \in {"postingAB", "postingCD", "indentedComment"}

\* the lines that directly follow the header, up to the first that does not
\* begin with INDENT
RECURSIVE DirectlyFollowing(_)
DirectlyFollowing(lines) ==
    IF lines = <<>> \/ ~StartsWithIndent(Head(lines)) THEN <<>>
    ELSE <<Head(lines)>> \o DirectlyFollowing(Tail(lines))

AccountOfLine(line) == IF line = "postingAB" THEN S("A:B") ELSE S("C:D")

\* C22: the postings of the transaction are those of the posting lines that
\* directly follow its header; an empty line ends the transaction, and an
\* indented line after it is not a posting of the transaction.
C22_PostingsDirectlyFollow ==
    op = "parse" =>
        /\ answer.ok
        /\ LET own == SelectSeq(DirectlyFollowing(arg),
                                LAMBDA line : line \in {"postingAB", "postingCD"})
               postings == answer.val[1].postings
           IN /\ Len(postings) = Len(own)
              /\ \A i \in DOMAIN postings : postings[i].account = AccountOfLine(own[i])

(***************************************************************************)
(* Parser.parse on one posting whose amount is written with an optional    *)
(* leading minus, a commodity before or after the number or none, and an   *)
(* optional minus directly before the number.                              *)
(***************************************************************************)
MaxDigits == 2   \* digits of the integer part of an amount

AmountForms == {"dollar", "symbol", "quoted", "suffix", "bare"}

AmountNumbers ==
    LET ints == UNION {[1..k -> {"0", "7"}] : k \in 1..MaxDigits}
    IN ints \cup {i \o S(".5") : i \in ints}

AmountShapes ==
    [lead : {<<>>, S("-")}, form : AmountForms, gap : {<<>>, S(" ")},
     inner : {<<>>, S("-")}, number : AmountNumbers]

AmountSource(a) ==
    CASE a.form = "dollar" -> a.lead \o S("$") \o a.gap \o a.inner \o a.number
      [] a.form = "symbol" -> a.lead \o S("ETH ") \o a.gap \o a.inner \o a.number
      [] a.form = "quoted" -> a.lead \o S("\"AY24\"") \o a.gap \o a.inner \o a.number
      [] a.form = "suffix" -> a.lead \o a.gap \o a.inner \o a.number \o S(" ETH")
      [] a.form = "bare" -> a.lead \o a.gap \o a.inner \o a.number

AmountInit ==
    /\ op = "init"
    /\ arg \in AmountShapes
    /\ file = S("2024/01/15 Tea\n  A:B  ") \o AmountSource(arg) \o S("\n")
    /\ mtime = 0
    /\ parser = NewParser
    /\ lexer = <<>>
    /\ answer = <<>>
    /\ cachedTransactions = <<>> /\ cacheVersion = <<>> /\ nodeArg = <<>>
    /\ appended = <<>> /\ calls = <<>>
    /\ DomIdle /\ MatchIdle /\ CalcIdle /\ PriceIdle

SpecAmount == AmountInit /\ [][ParseNext]_vars

ParsedAmounts ==
    IF op = "parse" /\ answer.ok
    THEN UNION {{e.postings[i].amount[1] :
                    i \in {j \in DOMAIN e.postings : e.postings[j].amount # None}} :
                e \in {answer.val[k] : k \in {n \in DOMAIN answer.val :
                                                 answer.val[n].type = "transaction"}}}
    ELSE {}

MinusSigns(a) == Len(a.lead) + Len(a.inner)

\* C23: the quantity of a parsed amount never begins with "-", and isNegative
\* is true exactly when the leading minus and the minus directly before the
\* number are an odd number of minus signs.
C23_SignParity ==
    \A node \in ParsedAmounts :
        /\ node.quantity # <<>>
        /\ Head(node.quantity) # "-"
        /\ node.isNegative = (MinusSigns(arg) % 2 = 1)

C23_Witness ==
    /\ ParsedAmounts # {}
    /\ arg.form = "dollar"
    /\ arg.lead = S("-") /\ arg.inner = S("-")
    /\ \A node \in ParsedAmounts : ~node.isNegative /\ node.quantity = arg.number

(***************************************************************************)
(* Lexer.tokenize on texts that start with four digits and a separator,    *)
(* continued with a month and a day of zero or more digits.                *)
(***************************************************************************)
MaxFieldDigits == 2   \* digits written for the month and for the day

DateSeparators == {S("/"), S("-")}

FieldDigits == UNION {[1..k -> {"0", "1"}] : k \in 0..MaxFieldDigits}

DateTexts ==
    {S("2024") \o s1 \o month \o s2 \o day \o rest :
        s1 \in DateSeparators, month \in FieldDigits,
        s2 \in DateSeparators \cup {<<>>}, day \in FieldDigits,
        rest \in {<<>>, S(" Tea\n")}}

DateInit ==
    /\ op = "init"
    /\ arg \in DateTexts
    /\ answer = <<>>
    /\ cachedTransactions = <<>> /\ cacheVersion = <<>> /\ nodeArg = <<>>
    /\ appended = <<>> /\ calls = <<>>
    /\ DomIdle /\ MatchIdle /\ CalcIdle /\ FileIdle /\ ParseIdle /\ PriceIdle

Tokenize ==
    /\ op = "init"
    /\ op' = "tokenize"
    /\ answer' = tokenize(arg)
    /\ UNCHANGED <<arg, cachedTransactions, cacheVersion, nodeArg, appended, calls>>
    /\ UNCHANGED <<domVars, matchVars, calcVars, fileVars, parseVars, priceVars>>

DateNext == Tokenize

SpecDate == DateInit /\ [][DateNext]_vars

IsSeparator(char) == char = "/" \/ char = "-"

\* \d{4} ("/"|"-") \d{2} ("/"|"-") \d{2}
IsDateForm(value) ==
    /\ Len(value) = 10
    /\ \A i \in {1, 2, 3, 4, 6, 7, 9, 10} : isDigit(value[i])
    /\ IsSeparator(value[5]) /\ IsSeparator(value[8])

\* C24: every DATE token has the form of four digits, a separator, two
\* digits, a separator and two digits.
C24_DateForm ==
    op = "tokenize" =>
        \A i \in DOMAIN answer : answer[i].type = "DATE" => IsDateForm(answer[i].value)

(***************************************************************************)
(* Lexer.tokenize and Parser.parse on the same lines, once ended by "\n"   *)
(* and once by "\r\n".                                                     *)
(***************************************************************************)
MaxEndedLines == 2   \* lines of a text with line endings

EndedLines == {"header", "posting", "noted", "comment", "price", "empty"}

EndedLineText(line) ==
    CASE line = "header" -> S("2024/01/15 Tea")
      [] line = "posting" -> S("  A:B  $ 5")
      [] line = "noted" -> S("  A:B  $ 5 ; n")
      [] line = "comment" -> S("; c")
      [] line = "price" -> S("P 2024/01/15 ETH $ 2")
      [] line = "empty" -> <<>>

RECURSIVE EndedText(_, _)
EndedText(lines, ending) ==
    IF lines = <<>> THEN <<>>
    ELSE EndedLineText(Head(lines)) \o ending \o EndedText(Tail(lines), ending)

EndingInit ==
    /\ op = "init"
    /\ arg \in SeqsUpTo(EndedLines, MaxEndedLines)
    /\ answer = <<>>
    /\ appended = <<>>
    /\ cachedTransactions = <<>> /\ cacheVersion = <<>> /\ nodeArg = <<>>
    /\ calls = <<>>
    /\ DomIdle /\ MatchIdle /\ CalcIdle /\ FileIdle /\ ParseIdle /\ PriceIdle

\* new Lexer(input).tokenize() on the LF text and on the CRLF text
TokenizeEndings ==
    /\ op = "init"
    /\ op' = "tokenize"
    /\ answer' = [lf |-> tokenize(EndedText(arg, S("\n"))),
                  crlf |-> tokenize(EndedText(arg, S("\r\n")))]
    /\ UNCHANGED <<arg, appended, cachedTransactions, cacheVersion, nodeArg, calls>>
    /\ UNCHANGED <<domVars, matchVars, calcVars, fileVars, parseVars, priceVars>>

\* new Parser().parse(input) on the LF text and on the CRLF text
ParseEndings ==
    /\ op = "tokenize"
    /\ op' = "parse"
    /\ appended' = [lf |-> parse(EndedText(arg, S("\n"))),
                    crlf |-> parse(EndedText(arg, S("\r\n")))]
    /\ UNCHANGED <<arg, answer, cachedTransactions, cacheVersion, nodeArg, calls>>
    /\ UNCHANGED <<domVars, matchVars, calcVars, fileVars, parseVars, priceVars>>

EndingNext == TokenizeEndings \/ ParseEndings

SpecEnding == EndingInit /\ [][EndingNext]_vars

TypesAndValues(tokens) ==
    [i \in DOMAIN tokens |-> <<tokens[i].type, tokens[i].value>>]

\* C25: an input with CRLF line endings gives the token types and values,
\* and the AST, of the same input with LF line endings; no token value holds
\* a carriage return.
C25_CrlfAsLf ==
    /\ op \in {"tokenize", "parse"} =>
           /\ TypesAndValues(answer.crlf) = TypesAndValues(answer.lf)
           /\ \A i \in DOMAIN answer.crlf : ~Includes(answer.crlf[i].value, "\r")
    /\ op = "parse" => appended.crlf = appended.lf

(***************************************************************************)
(* GitLedgerRepository with a gitClient and autoCommit.  `calls` is the    *)
(* list of the gitClient calls made so far, each with its outcome.         *)
(***************************************************************************)
GitCall(method, ok) == [method |-> method, ok |-> ok]

\* gitClient.getCurrentCommitHash(): null before the first commit
getCurrentCommitHash ==
    LET commits == {i \in DOMAIN calls : calls[i] = GitCall("commit", TRUE)}
    IN IF commits = {} THEN None ELSE Some(Cardinality(commits))

\* GitLedgerRepository.getHead().version
getHead ==
    IF getCurrentCommitHash # None THEN <<"commit", getCurrentCommitHash[1]>>
    ELSE <<"mtime", mtime>>

\* GitLedgerRepository.loadTransactions
GitLoad ==
    IF cachedTransactions # None /\ cacheVersion = getHead
    THEN [ok |-> TRUE, val |-> cachedTransactions[1], hit |-> TRUE]
    ELSE With(loadTransactions(file), LAMBDA parsed :
             [ok |-> parsed.ok, val |-> parsed.val, hit |-> FALSE])

GitCache(loaded) ==
    /\ cachedTransactions' = IF loaded.ok THEN Some(loaded.val) ELSE cachedTransactions
    /\ cacheVersion' = IF loaded.ok /\ ~loaded.hit THEN getHead ELSE cacheVersion

\* the ids GitLedgerRepository.appendTransactions hands out
gitNewTransactions(transactions) ==
    [idx \in 1..Len(transactions) |->
        LET t == transactions[idx]
        IN IF t.id # <<>> /\ ~Includes(t.id, "-") THEN t
           ELSE withId(t, isoDay(t.date) \o S("-") \o toString(idx - 1))]

\* the journal after the catch block that keeps what was written
restore_Keep(originalContent, newContent) == newContent

\* await fs.writeFile(this.journalPath, originalContent, 'utf-8')
restore(originalContent, newContent) == originalContent

MaxGitAppends == 2   \* calls of GitLedgerRepository.appendTransactions

GitTransactions == {ConcTransaction(S("Tea"))}

GitOutcomes == {"committed", "stageFile fails", "commit fails"}

GitInit ==
    /\ file \in {<<>>, appendToJournal(<<>>, <<ConcTransaction(S("Old"))>>, <<>>)}
    /\ mtime = IF file = <<>> THEN 0 ELSE 1
    /\ cachedTransactions = None /\ cacheVersion = None
    /\ nodeArg = <<>> /\ arg = <<>> /\ answer = <<>> /\ appended = <<>> /\ calls = <<>>
    /\ op = "init"
    /\ DomIdle /\ MatchIdle /\ CalcIdle /\ ParseIdle /\ PriceIdle

GitAppendTransactions ==
    \E t \in GitTransactions, stamp \in Stamps, outcome \in GitOutcomes :
        /\ Len(appended) < MaxGitAppends
        /\ \E newContent \in {appendToJournal(file, gitNewTransactions(<<t>>), <<>>)} :
              file' = IF outcome = "committed" THEN newContent
                      ELSE restore(file, newContent)
        /\ mtime' = IF outcome = "committed" THEN stamp ELSE stamp + 1
        /\ cachedTransactions' = None
        /\ calls' = calls \o
                    (CASE outcome = "committed" ->
                              <<GitCall("stageFile", TRUE), GitCall("commit", TRUE)>>
                       [] outcome = "stageFile fails" -> <<GitCall("stageFile", FALSE)>>
                       [] outcome = "commit fails" ->
                              <<GitCall("stageFile", TRUE), GitCall("commit", FALSE)>>)
        /\ answer' = IF outcome = "committed" THEN Resolved(gitNewTransactions(<<t>>))
                     ELSE JsError("Git commit failed, changes rolled back")
        /\ appended' = Append(appended, t)
        /\ arg' = <<t>>
        /\ op' = "appendTransactions"
        /\ UNCHANGED <<parseVars, priceVars, cacheVersion, nodeArg, domVars, matchVars, calcVars>>

GitListTransactions ==
    /\ \E transactions \in {GitLoad} :
          /\ GitCache(transactions)
          /\ answer' = IF transactions.ok THEN Resolved(transactions.val) ELSE transactions.val
    /\ op' = "listTransactions"
    /\ UNCHANGED <<parseVars, priceVars, fileVars, nodeArg, arg, appended, calls, domVars, matchVars, calcVars>>

GitNext == GitAppendTransactions \/ GitListTransactions

SpecGit == GitInit /\ [][GitNext]_vars

\* the call of appendTransactions that this step made has failed
AppendFailed == op' = "appendTransactions" /\ answer'.kind = "Error"

\* C26: when staging or committing fails after the journal was written, the
\* journal has the content it had before the call, the cache is invalidated,
\* the call fails with an error and a following listTransactions returns what
\* it returned before the call.
C26_RolledBack ==
    [][AppendFailed =>
          /\ file' = file
          /\ cachedTransactions' = None
          /\ GitLoad' = [GitLoad EXCEPT !.hit = FALSE]]_vars

\* a commit has failed on a journal that held a transaction, and the
\* following listTransactions returned that transaction
C26_Witness ==
    /\ op = "listTransactions"
    /\ calls # <<>>
    /\ calls[Len(calls)] = GitCall("commit", FALSE)
    /\ file # <<>>
    /\ answer.kind = "resolved"
    /\ Len(answer.value) = 1

(***************************************************************************)
(* FileLedgerRepository and FilePriceRepository on one journal that starts *)
(* empty: what they write, read back by listTransactions and listPrices.   *)
(***************************************************************************)
EmittedAccounts == {S("Expenses:Food"), S("Expenses:Eat out")}

EmittedTransactions ==
    {NewTransaction([id |-> None, date |-> Date0, description |-> S("Tea"),
                     postings |-> <<Posting(S("Assets:Cash"), -1, c), Posting(a, 1, c)>>,
                     comment |-> None, externalId |-> None, skipValidation |-> FALSE]) :
        a \in EmittedAccounts, c \in Commodities}

EmitInit ==
    /\ op = "init"
    /\ file = <<>> /\ mtime = 0
    /\ cachedTransactions = None /\ cacheVersion = 0
    /\ cachedPrices = None /\ priceCacheVersion = 0
    /\ nodeArg = <<>> /\ arg = <<>> /\ answer = <<>> /\ appended = <<>> /\ calls = <<>>
    /\ DomIdle /\ MatchIdle /\ CalcIdle /\ ParseIdle

EmitTransactions ==
    \E t \in EmittedTransactions, stamp \in Stamps :
        /\ Len(appended) < MaxUpserts
        /\ file' = appendToJournal(file, newTransactions(<<t>>, stamp), <<>>)
        /\ mtime' = stamp
        /\ cachedTransactions' = None
        /\ answer' = Resolved(newTransactions(<<t>>, stamp))
        /\ appended' = Append(appended, t)
        /\ arg' = <<t>>
        /\ op' = "appendTransactions"
        /\ UNCHANGED <<parseVars, priceVars, cacheVersion, nodeArg, calls, domVars, matchVars, calcVars>>

EmitNext == EmitTransactions \/ UpsertPrices \/ ListTransactions \/ ListPrices

SpecEmit == EmitInit /\ [][EmitNext]_vars

\* C27: the journal written by appendTransactions and upsertPrices parses
\* without a ParseError, and listTransactions and listPrices do not fail.
C27_WrittenTextParses ==
    /\ parse(file).ok
    /\ op \in {"listTransactions", "listPrices"} => answer.kind = "resolved"

(***************************************************************************)
(* FileLedgerRepository: getTransaction with an id that appendTransactions *)
(* has just returned.                                                      *)
(***************************************************************************)
\* transactions.find(t => t.id === id) ?? null
find(transactions, id) ==
    LET at == {i \in DOMAIN transactions : transactions[i].id = id}
    IN IF at = {} THEN None
       ELSE Some(transactions[CHOOSE i \in at : \A j \in at : i <= j])

GetTransaction ==
    /\ op = "appendTransactions"
    /\ answer.kind = "resolved"
    /\ \E i \in DOMAIN answer.value, transactions \in {Load} :
          /\ Cache(transactions)
          /\ answer' = IF transactions.ok
                       THEN Resolved(find(transactions.val, answer.value[i].id))
                       ELSE transactions.val
          /\ arg' = answer.value[i]
    /\ op' = "getTransaction"
    /\ UNCHANGED <<parseVars, priceVars, fileVars, nodeArg, appended, calls, domVars, matchVars, calcVars>>

GetNext == AppendTransactions \/ GetTransaction \/ ListTransactions

SpecGet == RepoInit /\ [][GetNext]_vars

\* C28: getTransaction with the id of a transaction that appendTransactions
\* returned gives a transaction with its date, description and postings.
C28_IdIdentifies ==
    op = "getTransaction" =>
        /\ answer.kind = "resolved"
        /\ answer.value # None
        /\ answer.value[1].date = arg.date
        /\ answer.value[1].description = arg.description
        /\ answer.value[1].postings = arg.postings

(***************************************************************************)
(* A FileLedgerRepository whose journal file is also written by a second   *)
(* FileLedgerRepository instance; the cache fields are the first one's.    *)
(***************************************************************************)
\* appendTransactions of the other instance: it invalidates its own cache
OtherAppendTransactions ==
    \E t \in RepoTransactions, stamp \in Stamps :
        /\ Len(appended) < MaxAppends
        /\ file' = appendToJournal(file, newTransactions(<<t>>, stamp), <<>>)
        /\ mtime' = stamp
        /\ appended' = Append(appended, t)
        /\ op' = "other appendTransactions"
        /\ UNCHANGED <<cachedTransactions, cacheVersion, nodeArg, arg, answer, calls>>
        /\ UNCHANGED <<parseVars, priceVars, domVars, matchVars, calcVars>>

StaleNext == AppendTransactions \/ OtherAppendTransactions \/ ListTransactions

SpecStale == RepoInit /\ [][StaleNext]_vars

\* C29: what listTransactions returns is what the journal file's current
\* content parses to, also after another instance has written the file.
C29_NeverStale ==
    op = "listTransactions" /\ answer.kind = "resolved" =>
        answer.value = loadTransactions(file).val

(***************************************************************************)
(* Lexer.tokenize on texts put together from fragments: the line and the   *)
(* column each token carries, against the place of its text in the input.  *)
(***************************************************************************)
PositionInit ==
    /\ op = "init"
    /\ arg \in LexInputs
    /\ answer = <<>>
    /\ cachedTransactions = <<>> /\ cacheVersion = <<>> /\ nodeArg = <<>>
    /\ appended = <<>> /\ calls = <<>>
    /\ DomIdle /\ MatchIdle /\ CalcIdle /\ FileIdle /\ ParseIdle /\ PriceIdle

SpecPosition == PositionInit /\ [][DateNext]_vars

\* the number of characters of input before the given 1-based line
RECURSIVE LineOffset(_, _)
LineOffset(input, line) ==
    IF line <= 1 THEN 0
    ELSE LET before == LineOffset(input, line - 1)
             ends == {i \in (before + 1)..Len(input) : input[i] = "\n"}
         IN IF ends = {} THEN Len(input)
            ELSE CHOOSE i \in ends : \A j \in ends : i <= j

\* the input holds the token's text at the token's line and column
StandsAt(input, token) ==
    /\ token.column >= 1
    /\ LET from == LineOffset(input, token.line) + token.column
       IN /\ from + Len(token.value) - 1 <= Len(input)
          /\ SubSeq(input, from, from + Len(token.value) - 1) = token.value

\* C30: the line and column of every token are those of the token's first
\* character in the input.
C30_TokenPosition ==
    op = "tokenize" =>
        \A i \in DOMAIN answer : answer[i].type # "EOF" => StandsAt(arg, answer[i])

====
